---- MODULE Spec2Model ----
(***************************************************************************)
(* Model of the azdata command line tool wrapper of the azdata extension   *)
(* (extensions/azdata/src/azdata.ts): the tool facade                      *)
(* AzdataTool.executeCommand with its error unwrapping, the                *)
(* install / update / EULA prompt flows over the persisted decision keys,  *)
(* the platform installers, the tool handle with its cached version, and   *)
(* the update check with the discovery of the latest version.              *)
(*                                                                         *)
(* JavaScript strings are sequences of one-character strings, so that      *)
(* indexOf, substring and JSON.parse are computed character by character.  *)
(***************************************************************************)
EXTENDS Integers, Sequences, FiniteSets, TLC

VARIABLES
    toolFound,      \* the 'azdataFound' context key set through setContext
    pathExists,     \* whether the tool binary exists at the handle's path
    debug,          \* the 'debug' configuration value of the extension
    call,           \* the last Tool Facade invocation and how it ended
    config,         \* the persisted decision store: key -> deploy option
    eulaAccepted,   \* the 'eulaAccepted' memento
    eulaContext,    \* the 'eulaAccepted' context key
    flows,          \* the prompt flows (promptToInstallAzdata, ...)
    platform,       \* process.platform
    installer,      \* the running or last installAzdata / updateAzdata
    issued,         \* the steps of the last successful install and update
    handle,         \* the tool handle (AzdataTool) held by the caller
    check,          \* the running or last checkAndUpdateAzdata or
                    \* checkAndInstallAzdata
    eval            \* the last call of a helper without side effects

vars == <<toolFound, pathExists, debug, call, config, eulaAccepted, eulaContext, flows,
          platform, installer, issued, handle, check, eval>>

facadeVars == <<toolFound, pathExists, debug, call>>
promptVars == <<config, eulaAccepted, eulaContext, flows>>
installVars == <<platform, installer, issued>>
toolVars == <<platform, installer, issued, handle, check, eval>>

----------------------------------------------------------------------------
(* JavaScript string primitives                                            *)

\* String.prototype.indexOf(c): 0-based index of the first c, or -1
RECURSIVE IndexFrom(_, _, _)
IndexFrom(s, c, i) ==
    IF i > Len(s) THEN -1
    ELSE IF s[i] = c THEN i - 1
    ELSE IndexFrom(s, c, i + 1)

IndexOf(s, c) == IndexFrom(s, c, 1)

Clamp(n, len) == IF n < 0 THEN 0 ELSE IF n > len THEN len ELSE n

\* String.prototype.substring(start, end): both indices are clamped to
\* [0, length] and swapped when start > end; the end index is exclusive
Substring(s, start, end) ==
    LET a  == Clamp(start, Len(s))
        b  == Clamp(end, Len(s))
        lo == IF a <= b THEN a ELSE b
        hi == IF a <= b THEN b ELSE a
    IN  SubSeq(s, lo + 1, hi)

Whitespace == {" ", "\n", "\r", "\t"}

RECURSIVE TrimStart(_)
TrimStart(s) ==
    IF s # <<>> /\ Head(s) \in Whitespace THEN TrimStart(Tail(s)) ELSE s

RECURSIVE TrimEnd(_)
TrimEnd(s) ==
    IF s # <<>> /\ s[Len(s)] \in Whitespace THEN TrimEnd(SubSeq(s, 1, Len(s) - 1)) ELSE s

\* String.prototype.trim(): whitespace is removed from both ends
Trim(s) == TrimEnd(TrimStart(s))

----------------------------------------------------------------------------
(* JSON.parse over character sequences.  Values are records of one shape:  *)
(* t is the JavaScript type, s the characters of a string or number,       *)
(* m the members of an object ([k, v] pairs) or the elements of an array.  *)
(* Strings without escape sequences and numbers without exponent are       *)
(* covered; no input of the model contains a backslash.                    *)

JUndefined == [t |-> "undefined", s |-> <<>>, m |-> <<>>]
JNull      == [t |-> "null", s |-> <<>>, m |-> <<>>]
JBool(b)   == [t |-> "boolean", s |-> b, m |-> <<>>]
JStr(cs)   == [t |-> "string", s |-> cs, m |-> <<>>]
JNum(cs)   == [t |-> "number", s |-> cs, m |-> <<>>]
JObj(ms)   == [t |-> "object", s |-> <<>>, m |-> ms]
JArr(es)   == [t |-> "array", s |-> <<>>, m |-> es]

Digits == {"0", "1", "2", "3", "4", "5", "6", "7", "8", "9"}

ParseFail == [ok |-> FALSE, val |-> JUndefined, next |-> 0]
ParseOk(v, n) == [ok |-> TRUE, val |-> v, next |-> n]

RECURSIVE SkipWs(_, _)
SkipWs(s, i) ==
    IF i <= Len(s) /\ s[i] \in {" ", "\n"} THEN SkipWs(s, i + 1) ELSE i

MatchAt(s, i, lit) ==
    /\ i + Len(lit) - 1 <= Len(s)
    /\ SubSeq(s, i, i + Len(lit) - 1) = lit

\* position of the closing quote of a string whose content starts at i, or 0
RECURSIVE ScanString(_, _)
ScanString(s, i) ==
    IF i > Len(s) THEN 0
    ELSE IF s[i] = "\"" THEN i
    ELSE IF s[i] = "\n" THEN 0
    ELSE ScanString(s, i + 1)

ParseString(s, i) ==
    LET j == ScanString(s, i + 1)
    IN  IF j = 0 THEN ParseFail ELSE ParseOk(JStr(SubSeq(s, i + 1, j - 1)), j + 1)

\* first position at or after i that holds no digit
RECURSIVE ScanDigits(_, _)
ScanDigits(s, i) ==
    IF i <= Len(s) /\ s[i] \in Digits THEN ScanDigits(s, i + 1) ELSE i

ParseNumber(s, i) ==
    LET st == IF s[i] = "-" THEN i + 1 ELSE i
        e  == ScanDigits(s, st)
        fe == IF e <= Len(s) /\ s[e] = "." THEN ScanDigits(s, e + 1) ELSE e
    IN  IF e = st THEN ParseFail
        ELSE IF e - st > 1 /\ s[st] = "0" THEN ParseFail
        ELSE IF fe = e + 1 THEN ParseFail
        ELSE ParseOk(JNum(SubSeq(s, i, fe - 1)), fe)

RECURSIVE ParseValue(_, _), ParseMembers(_, _, _), ParseElements(_, _, _)

ParseValue(s, i0) ==
    LET i == SkipWs(s, i0)
    IN  IF i > Len(s) THEN ParseFail
        ELSE IF s[i] = "{" THEN
            LET j == SkipWs(s, i + 1)
            IN  IF j <= Len(s) /\ s[j] = "}" THEN ParseOk(JObj(<<>>), j + 1)
                ELSE ParseMembers(s, j, <<>>)
        ELSE IF s[i] = "[" THEN
            LET j == SkipWs(s, i + 1)
            IN  IF j <= Len(s) /\ s[j] = "]" THEN ParseOk(JArr(<<>>), j + 1)
                ELSE ParseElements(s, j, <<>>)
        ELSE IF s[i] = "\"" THEN ParseString(s, i)
        ELSE IF s[i] \in Digits \cup {"-"} THEN ParseNumber(s, i)
        ELSE IF MatchAt(s, i, <<"n", "u", "l", "l">>) THEN ParseOk(JNull, i + 4)
        ELSE IF MatchAt(s, i, <<"t", "r", "u", "e">>) THEN ParseOk(JBool("true"), i + 4)
        ELSE IF MatchAt(s, i, <<"f", "a", "l", "s", "e">>) THEN ParseOk(JBool("false"), i + 5)
        ELSE ParseFail

\* the members of an object from position i (a key is expected), after acc
ParseMembers(s, i, acc) ==
    IF i > Len(s) \/ s[i] # "\"" THEN ParseFail
    ELSE LET k == ParseString(s, i)
         IN  IF ~k.ok THEN ParseFail
             ELSE LET c == SkipWs(s, k.next)
                  IN  IF c > Len(s) \/ s[c] # ":" THEN ParseFail
                      ELSE LET v == ParseValue(s, c + 1)
                           IN  IF ~v.ok THEN ParseFail
                               ELSE LET d    == SkipWs(s, v.next)
                                        acc2 == Append(acc, [k |-> k.val.s, v |-> v.val])
                                    IN  IF d > Len(s) THEN ParseFail
                                        ELSE IF s[d] = "}" THEN ParseOk(JObj(acc2), d + 1)
                                        ELSE IF s[d] = "," THEN ParseMembers(s, SkipWs(s, d + 1), acc2)
                                        ELSE ParseFail

\* the elements of an array from position i, after acc
ParseElements(s, i, acc) ==
    LET v == ParseValue(s, i)
    IN  IF ~v.ok THEN ParseFail
        ELSE LET d    == SkipWs(s, v.next)
                 acc2 == Append(acc, v.val)
             IN  IF d > Len(s) THEN ParseFail
                 ELSE IF s[d] = "]" THEN ParseOk(JArr(acc2), d + 1)
                 ELSE IF s[d] = "," THEN ParseElements(s, d + 1, acc2)
                 ELSE ParseFail

\* JSON.parse(s): ok is FALSE where JSON.parse throws a SyntaxError
JsonParse(s) ==
    LET r == ParseValue(s, 1)
    IN  IF r.ok /\ SkipWs(s, r.next) = Len(s) + 1
        THEN [ok |-> TRUE, val |-> r.val]
        ELSE [ok |-> FALSE, val |-> JUndefined]

\* the value of the last member of ms named name, or undefined
RECURSIVE MemberFrom(_, _, _)
MemberFrom(ms, name, i) ==
    IF i < 1 THEN JUndefined
    ELSE IF ms[i].k = name THEN ms[i].v
    ELSE MemberFrom(ms, name, i - 1)

\* the property access v.name: it throws a TypeError on null (and on
\* undefined), reads the member of an object, and is undefined on any other
\* value for the property names used here
PropThrows(v) == v.t \in {"null", "undefined"}
GetProp(v, name) ==
    IF v.t = "object" THEN MemberFrom(v.m, name, Len(v.m)) ELSE JUndefined

----------------------------------------------------------------------------
(* Texts                                                                   *)

NameStderr == <<"s", "t", "d", "e", "r", "r">>
NameStdout == <<"s", "t", "d", "o", "u", "t">>
NameLog    == <<"l", "o", "g">>
NameResult == <<"r", "e", "s", "u", "l", "t">>

\* ERROR: {"stderr":"bad arg"}
StderrBadArg ==
    <<"E", "R", "R", "O", "R", ":", " ", "{", "\"", "s", "t", "d", "e", "r", "r", "\"", ":",
      "\"", "b", "a", "d", " ", "a", "r", "g", "\"", "}">>
\* not found
StderrPlain ==
    <<"n", "o", "t", " ", "f", "o", "u", "n", "d">>
\* ERROR: {"stderr":"x","d":{"a":1}}
StderrNested ==
    <<"E", "R", "R", "O", "R", ":", " ", "{", "\"", "s", "t", "d", "e", "r", "r", "\"", ":",
      "\"", "x", "\"", ",", "\"", "d", "\"", ":", "{", "\"", "a", "\"", ":", "1", "}", "}">>
\* ERROR: {"stderr":"a}b"}
StderrBraceInValue ==
    <<"E", "R", "R", "O", "R", ":", " ", "{", "\"", "s", "t", "d", "e", "r", "r", "\"", ":",
      "\"", "a", "}", "b", "\"", "}">>
\* ERROR: {"msg":"x"}
StderrNoField ==
    <<"E", "R", "R", "O", "R", ":", " ", "{", "\"", "m", "s", "g", "\"", ":", "\"", "x", "\"", "}">>
\* }1{
StderrSwapped ==
    <<"}", "1", "{">>
\* null{
StderrNullOpen ==
    <<"n", "u", "l", "l", "{">>
\* {"stderr":7} tail
StderrNumber ==
    <<"{", "\"", "s", "t", "d", "e", "r", "r", "\"", ":", "7", "}", " ", "t", "a", "i", "l">>

\* {"log":[],"stdout":[],"stderr":[],"result":{"x":1}}
StdoutResult ==
    <<"{", "\"", "l", "o", "g", "\"", ":", "[", "]", ",",
      "\"", "s", "t", "d", "o", "u", "t", "\"", ":", "[", "]", ",",
      "\"", "s", "t", "d", "e", "r", "r", "\"", ":", "[", "]", ",",
      "\"", "r", "e", "s", "u", "l", "t", "\"", ":", "{", "\"", "x", "\"", ":", "1", "}", "}">>
\* {"log":["a"],"result":null}
StdoutPartial ==
    <<"{", "\"", "l", "o", "g", "\"", ":", "[", "\"", "a", "\"", "]", ",",
      "\"", "r", "e", "s", "u", "l", "t", "\"", ":", "n", "u", "l", "l", "}">>
\* null
StdoutNull ==
    <<"n", "u", "l", "l">>
\* usage: azdata
StdoutText ==
    <<"u", "s", "a", "g", "e", ":", " ", "a", "z", "d", "a", "t", "a">>

StderrSamples ==
    {<<>>, StderrBadArg, StderrPlain, StderrNested, StderrBraceInValue,
     StderrNoField, StderrSwapped, StderrNullOpen, StderrNumber}

StdoutSamples == {StdoutResult, StdoutPartial, StdoutNull, StdoutText}

----------------------------------------------------------------------------
(* Process Executor and executeAzdataCommand                               *)

\* exit codes the external process ends with (1602: installer cancelled)
UserCancelCode == 1602

\* what the spawned process can do: exit with zero and write stdout, or exit
\* with a non-zero code and write stderr
ProcessResults ==
    {[exitCode |-> 0, stdout |-> o, stderr |-> <<>>] : o \in StdoutSamples}
    \cup {[exitCode |-> 1, stdout |-> <<>>, stderr |-> e] : e \in StderrSamples}
    \cup {[exitCode |-> UserCancelCode, stdout |-> <<>>, stderr |-> e] :
            e \in {StderrPlain, StderrBadArg}}

\* how the process of a login ends
RepeatResults ==
    {[exitCode |-> 0, stdout |-> StdoutResult, stderr |-> <<>>],
     [exitCode |-> 1, stdout |-> <<>>, stderr |-> StderrBadArg]}

\* thrown values
ExitCodeError(code, stderr) == [kind |-> "ExitCodeError", code |-> code, stderr |-> stderr]
SyntaxError == [kind |-> "SyntaxError", code |-> 0, stderr |-> JUndefined]
TypeError   == [kind |-> "TypeError", code |-> 0, stderr |-> JUndefined]
AccessError == [kind |-> "AccessError", code |-> 0, stderr |-> JUndefined]
\* loc.noAzdata, thrown as it is when the tool is reported as not found
NoAzdata    == [kind |-> "noAzdata", code |-> 0, stderr |-> JUndefined]
\* nothing was thrown
NoError     == [kind |-> "none", code |-> 0, stderr |-> JUndefined]

NoOutput == [logs |-> JUndefined, stdout |-> JUndefined, stderr |-> JUndefined, result |-> JUndefined]

\* childProcess.executeCommand: the process output on a zero exit, an
\* ExitCodeError carrying the exit code and the stderr text otherwise
ExecuteProcess(proc) ==
    IF proc.exitCode # 0
    THEN [threw |-> TRUE, err |-> ExitCodeError(proc.exitCode, JStr(proc.stderr)),
          stdout |-> <<>>]
    ELSE [threw |-> FALSE, err |-> NoError, stdout |-> proc.stdout]

\* executeAzdataCommand: the environment overrides and the argument list
\* handed to the process executor
\* variant: the caller's variables win over ACCEPT_EULA
SpawnEnv_CallerWins(additionalEnvVars) == additionalEnvVars @@ ("ACCEPT_EULA" :> "yes")

\* Object.assign(additionalEnvVars, { 'ACCEPT_EULA': 'yes' })
SpawnEnv(additionalEnvVars) == ("ACCEPT_EULA" :> "yes") @@ additionalEnvVars

\* variant: one object is the default of every call, and keeps what
\* Object.assign put into it
DefaultEnvVars_Shared ==
    IF call.op = "executeCommand" THEN call.spawnEnv ELSE <<>>

\* additionalEnvVars = {}: a new empty object in each call without the argument
DefaultEnvVars == <<>>

\* the environment overrides of a call with the argument env, where <<>> is
\* the argument left out
EnvOf(env) == SpawnEnv(IF env = <<>> THEN DefaultEnvVars ELSE env)

\* variant: a failed process is started a second time
Spawned_Retried(run, command) ==
    IF run.threw THEN <<command, command>> ELSE <<command>>

\* the processes one awaited executeAzdataCommand starts
Spawned(run, command) == <<command>>
SpawnArgs(args, dbg) == IF dbg THEN Append(args, "--debug") ELSE args

\* variant: the flag is pushed onto the caller's own array
ArgsConcat_Push(args, extra) ==
    [result |-> args \o extra, receiver |-> args \o extra, shared |-> TRUE]

\* args.concat(extra): a new array; the receiver keeps its elements and
\* shares nothing with the result
ArgsConcat(args, extra) ==
    [result |-> args \o extra, receiver |-> args, shared |-> FALSE]

----------------------------------------------------------------------------
(* AzdataTool.executeCommand                                               *)

\* the JSON blob cut out of the stderr of a failed invocation
ErrorBlob(text) == Substring(text, IndexOf(text, "{"), IndexOf(text, "}") + 1)

\* the value the context key gets when the tool is reported as not found
NotFoundContext(found) == FALSE

\* try { await fs.promises.access(path); throw err; } catch (e) { ... }:
\* the try block throws in either case (the access error when the path is
\* missing, err when it exists) and the catch clause takes whatever it threw
ExistenceCheck(exists, inner, found) ==
    LET tried == IF exists THEN inner ELSE AccessError
    IN  [thrown |-> NoAzdata, caught |-> tried, found |-> NotFoundContext(found),
         accessChecked |-> TRUE]

\* variant: the catch clause treats every thrown value as an ExitCodeError
UnwrapParsed_AnyError(err, parsed, exists, found) ==
    IF ~parsed.ok
    THEN ExistenceCheck(exists, SyntaxError, found)
    ELSE IF PropThrows(parsed.val)
    THEN ExistenceCheck(exists, TypeError, found)
    ELSE [thrown |-> [err EXCEPT !.stderr = GetProp(parsed.val, NameStderr)],
          caught |-> err, found |-> found, accessChecked |-> FALSE]

\* the catch clause of executeCommand for a thrown err; parsed is what
\* JSON.parse makes of the blob cut out of err.stderr
UnwrapParsed(err, parsed, exists, found) ==
    IF err.kind = "ExitCodeError"
    THEN IF ~parsed.ok
         THEN ExistenceCheck(exists, SyntaxError, found)
         ELSE IF PropThrows(parsed.val)
         THEN ExistenceCheck(exists, TypeError, found)
         ELSE [thrown |-> [err EXCEPT !.stderr = GetProp(parsed.val, NameStderr)],
               caught |-> err, found |-> found, accessChecked |-> FALSE]
    ELSE [thrown |-> err, caught |-> err, found |-> found, accessChecked |-> FALSE]

UnwrapError(err, exists, found) ==
    UnwrapParsed(err, JsonParse(ErrorBlob(err.stderr.s)), exists, found)

NameLogs == <<"l", "o", "g", "s">>

\* variant: the log lines are read from a property named like the result's
OutputOf_Logs(val) ==
    [logs   |-> GetProp(val, NameLogs),
     stdout |-> GetProp(val, NameStdout),
     stderr |-> GetProp(val, NameStderr),
     result |-> GetProp(val, NameResult)]

\* the AzdataOutput built from the parsed stdout
OutputOf(val) ==
    [logs   |-> GetProp(val, NameLog),
     stdout |-> GetProp(val, NameStdout),
     stderr |-> GetProp(val, NameStderr),
     result |-> GetProp(val, NameResult)]

\* what the try block of executeCommand throws: the error of the process,
\* the SyntaxError of JSON.parse, the TypeError of reading a property of
\* null; NoError when it returns
TryThrows(run, output) ==
    IF run.threw THEN run.err
    ELSE IF ~output.ok THEN SyntaxError
    ELSE IF PropThrows(output.val) THEN TypeError
    ELSE NoError

\* executeCommand for the process outcome run, whose stdout parses to output
OutcomeOf(run, output, exists, found) ==
    IF TryThrows(run, output) = NoError
    THEN [status |-> "returned",
          output |-> OutputOf(output.val),
          thrown |-> NoError, caught |-> NoError, found |-> found,
          accessChecked |-> FALSE]
    ELSE [status |-> "threw", output |-> NoOutput]
           @@ UnwrapError(TryThrows(run, output), exists, found)

\* the whole of executeCommand for one process result
FacadeOutcome(proc, exists, found) ==
    OutcomeOf(ExecuteProcess(proc), JsonParse(ExecuteProcess(proc).stdout), exists, found)

\* argument lists and environment overrides the sub-commands call executeCommand with
CallSamples ==
    {[args |-> <<"arc", "sql", "mi", "show", "-n", "s1">>, env |-> <<>>],
     [args |-> <<"login", "-e", "ep", "-u", "u1">>,
      env |-> [k \in {"AZDATA_PASSWORD"} |-> "secret"]],
     [args |-> <<"arc", "dc", "config", "list">>,
      env |-> [k \in {"ACCEPT_EULA"} |-> "no"]]}

NoCall ==
    [op |-> "none", args |-> <<>>, env |-> <<>>, argv |-> <<>>, spawnEnv |-> <<>>,
     spawned |-> <<>>,
     argsAfter |-> <<>>, debug |-> FALSE, reused |-> FALSE,
     proc |-> [exitCode |-> 0, stdout |-> <<>>, stderr |-> <<>>],
     existed |-> TRUE, foundBefore |-> TRUE, foundAfter |-> TRUE,
     status |-> "none", output |-> NoOutput, thrown |-> NoError, caught |-> NoError,
     accessChecked |-> FALSE]

\* one invocation of the facade with the caller's array args, which is the
\* array of the caller's previous call when reused; out is what
\* executeCommand makes of the result proc of the external process
InvokeWith(args, env, proc, reused, out, cat) ==
    /\ toolFound' = out.found
    /\ call' = [op |-> "executeCommand", args |-> args, env |-> env,
                argv |-> SpawnArgs(cat.result, debug),
                argsAfter |-> IF cat.shared THEN SpawnArgs(cat.result, debug)
                                            ELSE cat.receiver,
                debug |-> debug, reused |-> reused,
                spawnEnv |-> EnvOf(env),
                spawned |-> Spawned(ExecuteProcess(proc),
                                    [args |-> SpawnArgs(cat.result, debug),
                                     env |-> EnvOf(env)]),
                proc |-> proc, existed |-> pathExists,
                foundBefore |-> toolFound, foundAfter |-> out.found,
                status |-> out.status, output |-> out.output,
                thrown |-> out.thrown, caught |-> out.caught,
                accessChecked |-> out.accessChecked]
    /\ UNCHANGED <<pathExists, debug>>
    /\ UNCHANGED <<promptVars, toolVars>>

Invoke(args, env, proc, reused) ==
    InvokeWith(args, env, proc, reused, FacadeOutcome(proc, pathExists, toolFound),
               ArgsConcat(args, <<"--output", "json">>))

\* the argument array and environment of the caller's previous call
PreviousCall ==
    IF call.op = "executeCommand"
    THEN {[args |-> call.argsAfter, env |-> call.env]}
    ELSE {}

\* one call of executeCommand; the caller may pass the array of its
\* previous call again
ExecuteCommand(args, env, proc) ==
    Invoke(args, env, proc,
           call.op = "executeCommand" /\ args = call.argsAfter /\ env = call.env)

\* the tool binary is removed from, or put back at, the handle's path
BinaryRemoved ==
    /\ pathExists
    /\ pathExists' = FALSE
    /\ UNCHANGED <<toolFound, debug, call>>
    /\ UNCHANGED <<promptVars, toolVars>>

BinaryRestored ==
    /\ ~pathExists
    /\ pathExists' = TRUE
    /\ UNCHANGED <<toolFound, debug, call>>
    /\ UNCHANGED <<promptVars, toolVars>>

\* the user changes the 'debug' setting of the extension
SetDebug ==
    /\ debug' = ~debug
    /\ UNCHANGED <<toolFound, pathExists, call>>
    /\ UNCHANGED <<promptVars, toolVars>>

----------------------------------------------------------------------------
(* Prompt flows: promptToInstallAzdata, promptToUpdateAzdata, promptForEula *)

NumFlows == 2
Flows == 1..NumFlows

\* azdataInstallKey, azdataUpdateKey, azdataAcceptEulaKey
Keys == {"install", "update", "eulaAccept"}

\* AzdataDeployOption: the two values a decision key is stored with
DeployOptions == {"prompt", "dontPrompt"}

\* variant: the items do not depend on who asked
ResponsesOffered_Same(key, userRequested) ==
    IF key = "eulaAccept" THEN {"accept", "askLater", "doNotAskAgain"}
    ELSE {"yes", "askLater", "doNotAskAgain"}

\* the items the message box is shown with
ResponsesOffered(key, userRequested) ==
    IF key = "eulaAccept"
    THEN IF userRequested THEN {"accept", "decline"}
         ELSE {"accept", "askLater", "doNotAskAgain"}
    ELSE IF userRequested THEN {"yes", "no"}
         ELSE {"yes", "askLater", "doNotAskAgain"}

\* variant: every prompt function starts from the accepting response
DefaultResponse_Accept(key) == IF key = "eulaAccept" THEN "accept" ELSE "yes"

\* the value 'response' is initialised with
DefaultResponse(key) == IF key = "eulaAccept" THEN "no" ELSE "yes"

\* the response that starts the action of the key
AcceptResponse(key) == IF key = "eulaAccept" THEN "accept" ELSE "yes"

\* variant: the early return is missing
SkipsSilently_Never(key, cfg, userRequested) == FALSE

\* config === dontPrompt && !userRequested: return false at once
\* (promptForEula has no such early return)
SkipsSilently(key, cfg, userRequested) ==
    key # "eulaAccept" /\ cfg = "dontPrompt" /\ ~userRequested

\* variant: promptForEula tests the stored value only
ShowsPrompt_StoredOnly(key, cfg, userRequested) == cfg = "prompt"

\* the condition under which the message box is shown
ShowsPrompt(key, cfg, userRequested) ==
    IF key = "eulaAccept"
    THEN cfg = "prompt" \/ userRequested
    ELSE cfg = "prompt"

\* response === loc.doNotAskAgain
IsDontAskAgain(response) == response = "doNotAskAgain"

\* variant: whatever is not an explicit refusal counts as acceptance
IsAccept_NotRefused(key, response) == response \notin {"no", "decline", "askLater"}

\* else if (response === loc.yes) / (response === loc.accept)
IsAccept(key, response) == response = AcceptResponse(key)

\* variant: the wrong option is stored
StoredOnDontAsk_Prompt(key) == "prompt"

\* the value setConfig stores for "don't ask again"
StoredOnDontAsk(key) == "dontPrompt"

\* variant: every prompt function reads the install key
KeyRead_Install(key) == "install"

\* the key a prompt function hands to getConfig
KeyRead(key) == key

\* the key a prompt function hands to setConfig
KeyWritten(key) == key

\* variant: the update writes the whole section, other keys at their default
SetConfig_Section(store, key, value) ==
    [k \in Keys |-> IF k = key THEN value ELSE "prompt"]

\* setConfig: config.update(key, value, ConfigurationTarget.Global)
SetConfig(store, key, value) == [store EXCEPT ![key] = value]

\* how installAzdata / updateAzdata can end
ActionOutcomes ==
    {NoError,
     ExitCodeError(1, JStr(StderrPlain)),
     ExitCodeError(UserCancelCode, JStr(<<>>)),
     [kind |-> "Error", code |-> 0, stderr |-> JUndefined]}

\* variant: the catch clause returns true as well
ActionReturn_Always(outcome) == TRUE

\* return true after the awaited action, false after the catch clause
ActionReturn(outcome) == outcome.kind = "none"

\* variant: no exit code error is reported at all
ShowsWarning_NoExitError(outcome) ==
    /\ outcome.kind # "none"
    /\ outcome.kind # "ExitCodeError"

\* !(err instanceof ExitCodeError) || err.code !== 1602
ShowsWarning(outcome) ==
    /\ outcome.kind # "none"
    /\ ~(outcome.kind = "ExitCodeError" /\ outcome.code = UserCancelCode)

IdleFlow ==
    [pc |-> "idle", key |-> "install", userRequested |-> FALSE, cfg |-> "prompt",
     presented |-> FALSE, offered |-> {}, answered |-> "none", response |-> "none",
     acted |-> FALSE, recorded |-> FALSE, outcome |-> NoError, warned |-> FALSE,
     wrote |-> {}, reads |-> {}, ret |-> FALSE,
     before |-> [config |-> [k \in Keys |-> "prompt"], eulaAccepted |-> FALSE]]

\* variant: the memento is toggled
MementoAfterAccept_Toggled(current) == ~current

\* memento.update(eulaAccepted, true)
MementoAfterAccept(current) == TRUE

\* variant: a message box that is put off or dismissed is shown again
PcAfterDecline_AskAgain(response) ==
    IF response \in {"askLater", "undefined"} THEN "prompting" ELSE "done"

\* a response that is neither "don't ask again" nor the accepting one: the
\* function falls through to its return
PcAfterDecline(response) == "done"

\* the part of a prompt function after the message box: flow f, whose record
\* is rec, goes on with 'response'
AfterResponse(f, rec, response) ==
    LET r == [rec EXCEPT !.response = response]
    IN  IF IsDontAskAgain(response)
        THEN /\ config' = SetConfig(config, KeyWritten(r.key), StoredOnDontAsk(r.key))
             /\ flows' = [flows EXCEPT ![f] =
                    [r EXCEPT !.pc = "done", !.ret = FALSE,
                              !.wrote = {<<KeyWritten(r.key), StoredOnDontAsk(r.key)>>}]]
             /\ UNCHANGED <<eulaAccepted, eulaContext>>
        ELSE IF IsAccept(r.key, response)
        THEN IF r.key = "eulaAccept"
             THEN /\ eulaAccepted' = MementoAfterAccept(eulaAccepted)
                  /\ eulaContext' = TRUE
                  /\ flows' = [flows EXCEPT ![f] =
                         [r EXCEPT !.pc = "done", !.recorded = TRUE, !.ret = TRUE]]
                  /\ UNCHANGED config
             ELSE /\ flows' = [flows EXCEPT ![f] = [r EXCEPT !.pc = "acting", !.acted = TRUE]]
                  /\ UNCHANGED <<config, eulaAccepted, eulaContext>>
        ELSE /\ flows' = [flows EXCEPT ![f] =
                    [r EXCEPT !.pc = PcAfterDecline(response), !.ret = FALSE]]
             /\ UNCHANGED <<config, eulaAccepted, eulaContext>>

\* a prompt function is called: it runs up to its first await
PromptCall(f, key, userRequested) ==
    /\ flows[f].pc = "idle"
    /\ LET cfg == config[KeyRead(key)]
           rec == [IdleFlow EXCEPT !.key = key, !.userRequested = userRequested,
                                   !.cfg = cfg, !.reads = {KeyRead(key)},
                                   !.before = [config |-> config,
                                               eulaAccepted |-> eulaAccepted]]
       IN  IF SkipsSilently(key, cfg, userRequested)
           THEN /\ flows' = [flows EXCEPT ![f] = [rec EXCEPT !.pc = "done", !.ret = FALSE]]
                /\ UNCHANGED <<config, eulaAccepted, eulaContext>>
           ELSE IF ShowsPrompt(key, cfg, userRequested)
           THEN /\ flows' = [flows EXCEPT ![f] =
                       [rec EXCEPT !.pc = "prompting", !.presented = TRUE,
                                   !.offered = ResponsesOffered(key, userRequested)]]
                /\ UNCHANGED <<config, eulaAccepted, eulaContext>>
           ELSE AfterResponse(f, rec, DefaultResponse(key))

StartPrompt(f, key, userRequested) ==
    /\ PromptCall(f, key, userRequested)
    /\ UNCHANGED <<facadeVars, toolVars>>

\* the user picks an item of the message box, or dismisses it
Respond(f, answer) ==
    /\ flows[f].pc = "prompting"
    /\ answer \in flows[f].offered \cup {"undefined"}
    /\ AfterResponse(f, [flows[f] EXCEPT !.answered = answer], answer)
    /\ UNCHANGED <<facadeVars, toolVars>>

\* the awaited installAzdata / updateAzdata ends
FinishAction(f, outcome) ==
    /\ flows[f].pc = "acting"
    /\ flows' = [flows EXCEPT ![f] =
           [@ EXCEPT !.pc = "done", !.outcome = outcome,
                     !.ret = ActionReturn(outcome), !.warned = ShowsWarning(outcome)]]
    /\ UNCHANGED <<config, eulaAccepted, eulaContext>>
    /\ UNCHANGED <<facadeVars, toolVars>>

\* the caller takes the result of the prompt function
ReturnPrompt(f) ==
    /\ flows[f].pc = "done"
    /\ flows' = [flows EXCEPT ![f] = IdleFlow]
    /\ UNCHANGED <<config, eulaAccepted, eulaContext>>
    /\ UNCHANGED <<facadeVars, toolVars>>

\* each call site awaits its prompt before it issues the next one
NoOtherFlow(f) == \A g \in Flows \ {f} : flows[g].pc = "idle"

----------------------------------------------------------------------------
(* installAzdata and updateAzdata: the platform's sequence of external     *)
(* steps, each awaited before the next one is issued                       *)

Platforms == {"win32", "darwin", "linux", "freebsd"}

\* one external step: a command installer through executeCommand or
\* executeSudoCommand, or the download of the installer; param is the value
\* of an earlier step that the command line embeds
Cmd(cmd, args) == [sudo |-> FALSE, cmd |-> cmd, args |-> args, param |-> <<>>]
Sudo(cmd) == [sudo |-> TRUE, cmd |-> cmd, args |-> <<>>, param |-> <<>>]

\* downloadAndInstallAzdataWin32; downloadedFile is the path the download
\* resolved with
DownloadAndInstallAzdataWin32(downloadedFile) ==
    <<Cmd("HttpClient.downloadFile", <<"azdataHostname/azdataUri", "os.tmpdir()">>),
      [Cmd("msiexec", <<"/qn", "/i", "downloadedFile">>) EXCEPT !.param = downloadedFile]>>

InstallAzdataDarwin(none) ==
    <<Cmd("brew", <<"tap", "microsoft/azdata-cli-release">>),
      Cmd("brew", <<"update">>),
      Cmd("brew", <<"install", "azdata-cli">>)>>

\* variant: the update runs the install sequence again
UpdateAzdataDarwin_Install(none) == InstallAzdataDarwin(none)

UpdateAzdataDarwin(none) ==
    <<Cmd("brew", <<"tap", "microsoft/azdata-cli-release">>),
      Cmd("brew", <<"update">>),
      Cmd("brew", <<"upgrade", "azdata-cli">>)>>

AptUpdate == Sudo("apt-get update")
AptPrerequisites ==
    Sudo("apt-get install gnupg ca-certificates curl wget software-properties-common apt-transport-https lsb-release -y")
AddSigningKey ==
    Sudo("curl -sL https://packages.microsoft.com/keys/microsoft.asc | gpg --dearmor | sudo tee /etc/apt/trusted.gpg.d/microsoft.asc.gpg > /dev/null")
LsbRelease == Cmd("lsb_release", <<"-rs">>)
AddRepository(release) ==
    [Sudo("add-apt-repository \"$(wget -qO- https://packages.microsoft.com/config/ubuntu/${release}/mssql-server-2019.list)\"")
        EXCEPT !.param = release]
AptInstallAzdata == Sudo("apt-get install -y azdata-cli")

\* variant: the package is installed before the repository is added
InstallAzdataLinux_PackageFirst(release) ==
    <<AptUpdate, AptPrerequisites, AddSigningKey, LsbRelease,
      AptInstallAzdata, AptUpdate, AddRepository(release)>>

\* installAzdataLinux; release is the trimmed output of lsb_release -rs
InstallAzdataLinux(release) ==
    <<AptUpdate, AptPrerequisites, AddSigningKey, LsbRelease,
      AddRepository(release), AptUpdate, AptInstallAzdata>>

\* the switch on process.platform of installAzdata and of updateAzdata
Supported(plat) == plat \in {"win32", "darwin", "linux"}

InstallSteps(plat, value) ==
    CASE plat = "win32"  -> DownloadAndInstallAzdataWin32(value)
      [] plat = "darwin" -> InstallAzdataDarwin(value)
      [] plat = "linux"  -> InstallAzdataLinux(value)
      [] OTHER           -> <<>>

UpdateSteps(plat, value) ==
    CASE plat = "win32"  -> DownloadAndInstallAzdataWin32(value)
      [] plat = "darwin" -> UpdateAzdataDarwin(value)
      [] plat = "linux"  -> InstallAzdataLinux(value)
      [] OTHER           -> <<>>

StepsOf(op, plat, value) ==
    IF op = "install" THEN InstallSteps(plat, value) ELSE UpdateSteps(plat, value)

PlatformUnsupported == [kind |-> "PlatformUnsupported", code |-> 0, stderr |-> JUndefined]
DownloadError == [kind |-> "Error", code |-> 0, stderr |-> JUndefined]

Release1804 == <<"1", "8", ".", "0", "4", "\n">>
Release2004 == <<"2", "0", ".", "0", "4", "\n">>
DownloadedFile == <<"a", "z", "d", "a", "t", "a", ".", "m", "s", "i">>

\* how a command of the installer ends
CommandResults ==
    {[exitCode |-> 0, stdout |-> <<>>, stderr |-> <<>>],
     [exitCode |-> 1, stdout |-> <<>>, stderr |-> StderrPlain],
     [exitCode |-> UserCancelCode, stdout |-> <<>>, stderr |-> <<>>]}

\* how lsb_release -rs ends
ReleaseResults ==
    {[exitCode |-> 0, stdout |-> Release1804, stderr |-> <<>>],
     [exitCode |-> 0, stdout |-> Release2004, stderr |-> <<>>],
     [exitCode |-> 1, stdout |-> <<>>, stderr |-> StderrPlain]}

\* how the download of the installer ends: with the path of the file, or
\* rejected
DownloadResults ==
    {[threw |-> FALSE, err |-> NoError, stdout |-> DownloadedFile],
     [threw |-> TRUE, err |-> DownloadError, stdout |-> <<>>]}

\* the results the step can end with
ResultsOf(step) ==
    IF step.cmd = "HttpClient.downloadFile" THEN DownloadResults
    ELSE IF step.cmd = "lsb_release" THEN {ExecuteProcess(proc) : proc \in ReleaseResults}
    ELSE {ExecuteProcess(proc) : proc \in CommandResults}

StepResults ==
    {ExecuteProcess(proc) : proc \in CommandResults \cup ReleaseResults} \cup DownloadResults

\* the value a later command line embeds: the downloaded file, the trimmed
\* output of lsb_release
ValueOf(step, res, value) ==
    IF step.cmd = "HttpClient.downloadFile" THEN res.stdout
    ELSE IF step.cmd = "lsb_release" THEN Trim(res.stdout)
    ELSE value

\* variant: a rejected step is not awaited, the sequence goes on
Rejects_Never(res) == FALSE

\* await: a rejected step throws out of the sequence
Rejects(res) == res.threw

\* variant: the message is disposed after the switch, not in a finally
StatusBarAtExit_SuccessOnly(status) == IF status = "ok" THEN "disposed" ELSE "shown"

\* finally { statusDisposable.dispose(); }
StatusBarAtExit(status) == "disposed"

NoRun ==
    [op |-> "none", pc |-> "idle", started |-> <<>>, results |-> <<>>, value |-> <<>>,
     status |-> "none", error |-> NoError, statusBar |-> "none"]

NoneIssued == [o \in {"install", "update"} |-> <<>>]

\* installAzdata / updateAzdata up to the first await: the status bar
\* message is set and the first step of the platform is issued; an
\* unsupported platform throws at once
StartRun(op) ==
    /\ installer.pc # "running"
    /\ IF Supported(platform)
       THEN installer' = [NoRun EXCEPT !.op = op, !.pc = "running", !.statusBar = "shown",
                                 !.started = <<StepsOf(op, platform, <<>>)[1]>>]
       ELSE installer' = [NoRun EXCEPT !.op = op, !.pc = "done", !.status = "failed",
                                 !.error = PlatformUnsupported,
                                 !.statusBar = StatusBarAtExit("failed")]
    /\ UNCHANGED <<platform, issued>>

InstallAzdata == StartRun("install") /\ UNCHANGED <<facadeVars, promptVars, handle, check, eval>>

UpdateAzdata == StartRun("update") /\ UNCHANGED <<facadeVars, promptVars, handle, check, eval>>

\* the awaited step ends with res: the sequence is left with the step's
\* error, or the next step is issued, or the sequence is complete; the
\* status bar message is disposed when the function is left
StepDone(res) ==
    /\ installer.pc = "running"
    /\ LET k     == Len(installer.started)
           step  == installer.started[k]
           value == ValueOf(step, res, installer.value)
           steps == StepsOf(installer.op, platform, value)
           r     == [installer EXCEPT !.results = Append(@, res), !.value = value]
       IN  /\ res \in ResultsOf(step)
           /\ IF Rejects(res)
              THEN /\ installer' = [r EXCEPT !.pc = "done", !.status = "failed",
                                       !.error = res.err,
                                       !.statusBar = StatusBarAtExit("failed")]
                   /\ UNCHANGED issued
              ELSE IF k < Len(steps)
              THEN /\ installer' = [r EXCEPT !.started = Append(@, steps[k + 1])]
                   /\ UNCHANGED issued
              ELSE /\ installer' = [r EXCEPT !.pc = "done", !.status = "ok",
                                       !.statusBar = StatusBarAtExit("ok")]
                   /\ issued' = [issued EXCEPT ![installer.op] = installer.started]
    /\ UNCHANGED platform
    /\ UNCHANGED <<facadeVars, promptVars, handle, check, eval>>

----------------------------------------------------------------------------
(* SemVer, parseVersion and the tool handle                                *)

DigitChars == <<"0", "1", "2", "3", "4", "5", "6", "7", "8", "9">>
DigitValue(c) == (CHOOSE n \in 1..10 : DigitChars[n] = c) - 1

\* the number a sequence of digit characters denotes
RECURSIVE ToNat(_)
ToNat(ds) ==
    IF ds = <<>> THEN 0
    ELSE 10 * ToNat(SubSeq(ds, 1, Len(ds) - 1)) + DigitValue(ds[Len(ds)])

\* position (1-based) of the first occurrence of sub in s at or after i, or 0
RECURSIVE FindFrom(_, _, _)
FindFrom(s, sub, i) ==
    IF i + Len(sub) - 1 > Len(s) THEN 0
    ELSE IF MatchAt(s, i, sub) THEN i
    ELSE FindFrom(s, sub, i + 1)

\* String.prototype.split(sep) for a non-empty separator
RECURSIVE Split(_, _)
Split(s, sep) ==
    LET i == FindFrom(s, sep, 1)
    IN  IF i = 0 THEN <<s>>
        ELSE <<SubSeq(s, 1, i - 1)>> \o Split(SubSeq(s, i + Len(sep), Len(s)), sep)

\* os.EOL
EOL(plat) == IF plat = "win32" THEN <<"\r", "\n">> ELSE <<"\n">>

\* parseVersion: the first line of the version output, trimmed
ParseVersion(raw, plat) == Trim(Split(raw, EOL(plat))[1])

\* a numeric identifier of a version: digits without a leading zero
NumericId(p) ==
    /\ p # <<>>
    /\ \A i \in 1..Len(p) : p[i] \in Digits
    /\ (Len(p) = 1 \/ p[1] # "0")

InvalidVersion == [valid |-> FALSE, major |-> 0, minor |-> 0, patch |-> 0, raw |-> <<>>]

\* new SemVer(version) of the semver package: a TypeError unless version is
\* a string that, trimmed, reads [v]MAJOR.MINOR.PATCH (valid is FALSE for
\* the throw); pre-release and build suffixes occur in no input of the model
SemVer(version) ==
    IF version.t # "string" THEN InvalidVersion
    ELSE LET t     == Trim(version.s)
             main  == IF t # <<>> /\ t[1] = "v" THEN Tail(t) ELSE t
             parts == Split(main, <<".">>)
         IN  IF Len(parts) = 3 /\ \A i \in 1..3 : NumericId(parts[i])
             THEN [valid |-> TRUE, major |-> ToNat(parts[1]), minor |-> ToNat(parts[2]),
                   patch |-> ToNat(parts[3]), raw |-> version.s]
             ELSE InvalidVersion

\* variant: versions of the same major and minor compare by the receiver's
\* patch alone
Compare_PatchIgnored(a, b) ==
    IF a.major # b.major THEN (IF a.major > b.major THEN 1 ELSE -1)
    ELSE IF a.minor # b.minor THEN (IF a.minor > b.minor THEN 1 ELSE -1)
    ELSE IF a.patch > 0 THEN 1
    ELSE 0

\* SemVer.compare: 1, 0 or -1 by major, minor and patch
Compare(a, b) ==
    IF a.major # b.major THEN (IF a.major > b.major THEN 1 ELSE -1)
    ELSE IF a.minor # b.minor THEN (IF a.minor > b.minor THEN 1 ELSE -1)
    ELSE IF a.patch # b.patch THEN (IF a.patch > b.patch THEN 1 ELSE -1)
    ELSE 0

\* 20.2.0\nPy 3
Banner2020 ==
    <<"2", "0", ".", "2", ".", "0", "\n", "P", "y", " ", "3">>
\* 20.10.1\r\nPy 3
Banner20101 ==
    <<"2", "0", ".", "1", "0", ".", "1", "\r", "\n", "P", "y", " ", "3">>
\* usage\n
BannerGarbage ==
    <<"u", "s", "a", "g", "e", "\n">>
\* {"linux":{"version":"20.2.0"},"win32":{"version":"20.2.0"}}
ReleaseJson2020 ==
    <<"{", "\"", "l", "i", "n", "u", "x", "\"", ":", "{", "\"", "v", "e", "r", "s", "i", "o", "n", "\"", ":", "\"", "2", "0", ".", "2", ".", "0", "\"", "}", ",", "\"", "w", "i", "n", "3", "2", "\"", ":", "{", "\"", "v", "e", "r", "s", "i", "o", "n", "\"", ":", "\"", "2", "0", ".", "2", ".", "0", "\"", "}", "}">>
\* {"linux":{"version":"20.10.0"},"win32":{"version":"20.10.0"}}
ReleaseJson20100 ==
    <<"{", "\"", "l", "i", "n", "u", "x", "\"", ":", "{", "\"", "v", "e", "r", "s", "i", "o", "n", "\"", ":", "\"", "2", "0", ".", "1", "0", ".", "0", "\"", "}", ",", "\"", "w", "i", "n", "3", "2", "\"", ":", "{", "\"", "v", "e", "r", "s", "i", "o", "n", "\"", ":", "\"", "2", "0", ".", "1", "0", ".", "0", "\"", "}", "}">>
\* <html>
ReleaseHtml ==
    <<"<", "h", "t", "m", "l", ">">>
\* [{"versions":{"stable":"20.2.0"}}]
BrewInfo2020 ==
    <<"[", "{", "\"", "v", "e", "r", "s", "i", "o", "n", "s", "\"", ":", "{", "\"", "s", "t", "a", "b", "l", "e", "\"", ":", "\"", "2", "0", ".", "2", ".", "0", "\"", "}", "}", "]">>
\* [{"versions":{"stable":"20.10.0"}}]
BrewInfo20100 ==
    <<"[", "{", "\"", "v", "e", "r", "s", "i", "o", "n", "s", "\"", ":", "{", "\"", "s", "t", "a", "b", "l", "e", "\"", ":", "\"", "2", "0", ".", "1", "0", ".", "0", "\"", "}", "}", "]">>
\* {"linux":{"version":"20.2.1"},"win32":{"version":"20.2.2"},"freebsd":{"version":"20.2.3"}}
ReleaseJsonPerPlatform ==
    <<"{", "\"", "l", "i", "n", "u", "x", "\"", ":", "{", "\"", "v", "e", "r", "s", "i", "o", "n", "\"", ":", "\"", "2", "0", ".", "2", ".", "1", "\"", "}", ",", "\"", "w", "i", "n", "3", "2", "\"", ":", "{", "\"", "v", "e", "r", "s", "i", "o", "n", "\"", ":", "\"", "2", "0", ".", "2", ".", "2", "\"", "}", ",", "\"", "f", "r", "e", "e", "b", "s", "d", "\"", ":", "{", "\"", "v", "e", "r", "s", "i", "o", "n", "\"", ":", "\"", "2", "0", ".", "2", ".", "3", "\"", "}", "}">>
\* [{"versions":{"stable":"20.2.1"}},{"versions":{"stable":"20.10.0"}}]
BrewInfoTwo ==
    <<"[", "{", "\"", "v", "e", "r", "s", "i", "o", "n", "s", "\"", ":", "{", "\"", "s", "t", "a", "b", "l", "e", "\"", ":", "\"", "2", "0", ".", "2", ".", "1", "\"", "}", "}", ",", "{", "\"", "v", "e", "r", "s", "i", "o", "n", "s", "\"", ":", "{", "\"", "s", "t", "a", "b", "l", "e", "\"", ":", "\"", "2", "0", ".", "1", "0", ".", "0", "\"", "}", "}", "]">>
\* Error: no formula
BrewInfoError ==
    <<"E", "r", "r", "o", "r", ":", " ", "n", "o", " ", "f", "o", "r", "m", "u", "l", "a">>
\* []
BrewInfoEmpty ==
    <<"[", "]">>
NameVersion ==
    <<"v", "e", "r", "s", "i", "o", "n">>
NameVersions ==
    <<"v", "e", "r", "s", "i", "o", "n", "s">>
NameStable ==
    <<"s", "t", "a", "b", "l", "e">>

\* how 'azdata --version' ends
VersionResults ==
    {[exitCode |-> 0, stdout |-> Banner2020, stderr |-> <<>>],
     [exitCode |-> 0, stdout |-> Banner20101, stderr |-> <<>>],
     [exitCode |-> 0, stdout |-> BannerGarbage, stderr |-> <<>>],
     [exitCode |-> 1, stdout |-> <<>>, stderr |-> StderrPlain]}

\* searchForCmd: the path of the command, or a rejection
SearchResults == {[threw |-> FALSE, err |-> NoError], [threw |-> TRUE, err |-> DownloadError]}

\* no findAzdata has ended yet
NoFind == [status |-> "none", flag |-> FALSE, thrown |-> NoError]

\* the command searchForCmd is asked for, which the handle keeps as its path
ToolPath(plat) == IF plat = "win32" THEN "azdata.cmd" ELSE "azdata"

NoHandle ==
    [defined |-> FALSE, path |-> "", cachedVersion |-> InvalidVersion, argv |-> <<>>,
     find |-> NoFind, spawnEnv |-> <<>>, lastGood |-> <<>>, lastOp |-> "none", lastStatus |-> "none"]

\* the handle new AzdataTool(path, version) makes of the version output
\* stdout, where ver is the SemVer of its parsed first line
NewTool(stdout, ver, argv) ==
    [defined |-> TRUE, path |-> ToolPath(platform), cachedVersion |-> ver, argv |-> argv,
     find |-> NoFind, spawnEnv |-> EnvOf(<<>>), lastGood |-> stdout, lastOp |-> "find", lastStatus |-> "ok"]

\* findSpecificAzdata: search the command, run it with --version, build the
\* handle from the parsed version; out is how the process ended, ver the
\* SemVer of its parsed output
FoundTool(search, out, ver, argv) ==
    IF search.threw THEN [threw |-> TRUE, err |-> search.err, tool |-> NoHandle]
    ELSE IF out.threw THEN [threw |-> TRUE, err |-> out.err, tool |-> NoHandle]
    ELSE IF ~ver.valid THEN [threw |-> TRUE, err |-> TypeError, tool |-> NoHandle]
    ELSE [threw |-> FALSE, err |-> NoError, tool |-> NewTool(out.stdout, ver, argv)]

\* the version the output of a '--version' process is parsed to
VersionOf(proc, plat) == SemVer(JStr(ParseVersion(ExecuteProcess(proc).stdout, plat)))

FindSpecificAzdata(search, proc, plat, dbg) ==
    FoundTool(search, ExecuteProcess(proc), VersionOf(proc, plat),
              SpawnArgs(<<"--version">>, dbg))

\* variant: the context key is set to true before the search and left so
FoundFlag_SetBefore(threw) == TRUE

\* setContext(azdataFound, true) after the search, setContext(azdataFound,
\* false) in the catch clause
FoundFlag(threw) == ~threw

\* what the caller holds after findAzdata ended with found: the new handle,
\* or the handle it had and the error, which the catch clause throws again
AfterFind(held, found) ==
    IF found.threw
    THEN [held EXCEPT !.find = [status |-> "threw", flag |-> FoundFlag(TRUE),
                                thrown |-> found.err]]
    ELSE [found.tool EXCEPT !.find = [status |-> "found", flag |-> FoundFlag(FALSE),
                                      thrown |-> NoError]]

\* findAzdata: the context key records whether the tool was found; the
\* caller gets the new handle, or the error and keeps what it held.  An
\* update check that awaits its discovery keeps the handle object it was
\* called with, which is then no longer the one the caller holds.
FindAzdataWith(found) ==
    /\ toolFound' = FoundFlag(found.threw)
    /\ handle' = AfterFind(handle, found)
    /\ check' = IF ~found.threw /\ check.pc = "discovering"
                THEN [check EXCEPT !.attached = FALSE]
                ELSE check
    /\ UNCHANGED <<pathExists, debug, call>>
    /\ UNCHANGED <<promptVars, installVars, eval>>

FindAzdata(search, proc) ==
    FindAzdataWith(FindSpecificAzdata(search, proc, platform, debug))

\* variant: version() leaves the cached version as it is
CachedAfterVersion_Kept(current, parsed) == current

\* this.cachedVersion = new SemVer(parseVersion(output.stdout))
CachedAfterVersion(current, parsed) == parsed

\* variant: a version() that throws has cleared the cached version
CachedAfterThrow_Cleared(current) == InvalidVersion

\* the cached version after a version() that threw: the assignment was not
\* reached
CachedAfterThrow(current) == current

\* AzdataTool.version(): a failed process or an output that is no version
\* throws before the assignment; an update check awaiting its discovery
\* with this handle object sees the assignment.  out is how the process
\* ended, ver the SemVer of its parsed output
VersionWith(out, ver) ==
    /\ handle.defined
    /\ IF out.threw \/ ~ver.valid
       THEN /\ handle' = [handle EXCEPT !.argv = SpawnArgs(<<"--version">>, debug),
                                        !.spawnEnv = EnvOf(<<>>),
                                        !.lastOp = "version", !.lastStatus = "threw",
                                        !.cachedVersion = CachedAfterThrow(@)]
            /\ UNCHANGED check
       ELSE /\ handle' = [handle EXCEPT !.argv = SpawnArgs(<<"--version">>, debug),
                                        !.spawnEnv = EnvOf(<<>>),
                                        !.lastOp = "version", !.lastStatus = "ok",
                                        !.cachedVersion = CachedAfterVersion(@, ver),
                                        !.lastGood = out.stdout]
            /\ check' = IF check.pc = "discovering" /\ check.attached
                        THEN [check EXCEPT !.cached = CachedAfterVersion(@, ver)]
                        ELSE check
    /\ UNCHANGED <<facadeVars, promptVars, installVars, eval>>

Version(proc) == VersionWith(ExecuteProcess(proc), VersionOf(proc, platform))

----------------------------------------------------------------------------
(* discoverLatestAvailableAzdataVersion and checkAndUpdateAzdata           *)

\* process.platform as characters, for azdataReleaseInfo[process.platform]
PlatformName(plat) ==
    CASE plat = "win32"  -> <<"w", "i", "n", "3", "2">>
      [] plat = "darwin" -> <<"d", "a", "r", "w", "i", "n">>
      [] plat = "linux"  -> <<"l", "i", "n", "u", "x">>
      [] OTHER           -> <<"f", "r", "e", "e", "b", "s", "d">>

\* `${azdataHostname}/${azdataReleaseJson}`
ReleaseUrl == "azdataHostname/azdataReleaseJson"

\* the brew commands of the discovery
BrewTap == "brew tap microsoft/azdata-cli-release"
BrewUpdate == "brew update"
BrewInfoJson == "brew info azdata-cli --json"

\* variant: the error names the source only
ParseFailure_SourceOnly(source, text) ==
    [kind |-> "Error", code |-> 0, stderr |-> JUndefined, source |-> source, text |-> <<>>]

\* Error(`failed to parse the JSON ... ${source}, text being parsed:
\* '${text}', error:...`): the Error and what its message embeds
ParseFailure(source, text) ==
    [kind |-> "Error", code |-> 0, stderr |-> JUndefined, source |-> source, text |-> text]

Discovered(ver) == [threw |-> FALSE, err |-> NoError, version |-> ver]
DiscoveryThrew(err) == [threw |-> TRUE, err |-> err, version |-> InvalidVersion]

\* the version a discovery returns for the value it read from the parsed
\* document: new SemVer(version)
DiscoveredVersion(ver) ==
    IF ~ver.valid THEN DiscoveryThrew(TypeError) ELSE Discovered(ver)

\* azdataReleaseInfo[process.platform]['version'] of the parsed document
ReleaseVersionOf(info, plat) ==
    IF PropThrows(info) \/ PropThrows(GetProp(info, PlatformName(plat)))
    THEN DiscoveryThrew(TypeError)
    ELSE DiscoveredVersion(SemVer(GetProp(GetProp(info, PlatformName(plat)), NameVersion)))

\* discoverLatestAzdataVersionFromJson; http is how getTextContent ended,
\* parsed what JSON.parse makes of its text
FromJson(http, parsed, plat) ==
    IF http.threw THEN DiscoveryThrew(http.err)
    ELSE IF ~parsed.ok THEN DiscoveryThrew(ParseFailure(ReleaseUrl, http.stdout))
    ELSE ReleaseVersionOf(parsed.val, plat)

\* what the discovery did next to its result: the commands it ran, the
\* address it fetched, and the text it got to parse, if it got one
DiscoverLatestAzdataVersionFromJson(http, plat) ==
    FromJson(http, JsonParse(http.stdout), plat)
        @@ [ran |-> <<>>, fetched |-> <<ReleaseUrl>>,
            text |-> IF http.threw THEN <<>> ELSE <<http.stdout>>]

\* variant: the last element is taken
Shift_Last(v) == IF v.m = <<>> THEN JUndefined ELSE v.m[Len(v.m)]

\* Array.prototype.shift(): the first element, undefined for an empty array
Shift(v) == IF v.m = <<>> THEN JUndefined ELSE v.m[1]

\* brewInfoAzdataCliJson.shift().versions.stable of the parsed output
StableVersionOf(info) ==
    IF info.t # "array" THEN DiscoveryThrew(TypeError)
    ELSE IF PropThrows(Shift(info)) \/ PropThrows(GetProp(Shift(info), NameVersions))
    THEN DiscoveryThrew(TypeError)
    ELSE DiscoveredVersion(SemVer(GetProp(GetProp(Shift(info), NameVersions), NameStable)))

\* discoverLatestStableAzdataVersionDarwin; tap, update and out are how
\* 'brew tap', 'brew update' and 'brew info azdata-cli --json' ended, parsed
\* what JSON.parse makes of the output of the last
FromBrew(tap, update, out, parsed) ==
    IF tap.threw THEN DiscoveryThrew(tap.err)
    ELSE IF update.threw THEN DiscoveryThrew(update.err)
    ELSE IF out.threw THEN DiscoveryThrew(out.err)
    ELSE IF ~parsed.ok THEN DiscoveryThrew(ParseFailure(BrewInfoJson, out.stdout))
    ELSE StableVersionOf(parsed.val)

\* the brew commands started: each one after the one before it has ended well
BrewRan(tap, update) ==
    IF tap.threw THEN <<BrewTap>>
    ELSE IF update.threw THEN <<BrewTap, BrewUpdate>>
    ELSE <<BrewTap, BrewUpdate, BrewInfoJson>>

DiscoverLatestStableAzdataVersionDarwin(brew) ==
    FromBrew(ExecuteProcess(brew.tap), ExecuteProcess(brew.update),
             ExecuteProcess(brew.info), JsonParse(ExecuteProcess(brew.info).stdout))
        @@ [ran |-> BrewRan(ExecuteProcess(brew.tap), ExecuteProcess(brew.update)),
            fetched |-> <<>>,
            text |-> IF \E p \in {brew.tap, brew.update, brew.info} : p.exitCode # 0
                     THEN <<>> ELSE <<brew.info.stdout>>]

DiscoverLatestAvailableAzdataVersion(plat, input) ==
    IF plat = "darwin" THEN DiscoverLatestStableAzdataVersionDarwin(input)
    ELSE DiscoverLatestAzdataVersionFromJson(input, plat)

BrewOk == [exitCode |-> 0, stdout |-> <<>>, stderr |-> <<>>]
BrewFailed == [exitCode |-> 1, stdout |-> <<>>, stderr |-> StderrPlain]
BrewInfo(text) == [exitCode |-> 0, stdout |-> text, stderr |-> <<>>]

\* what the discovery gets from outside: the release document or the
\* results of the brew commands
HttpInputs ==
    {[kind |-> "http", threw |-> FALSE, err |-> NoError, stdout |-> text] :
         text \in {ReleaseJson2020, ReleaseJson20100, ReleaseJsonPerPlatform, ReleaseHtml}}
    \cup {[kind |-> "http", threw |-> TRUE, err |-> DownloadError, stdout |-> <<>>]}

BrewInputs ==
    {[kind |-> "brew", tap |-> BrewOk, update |-> BrewOk, info |-> BrewInfo(text)] :
         text \in {BrewInfo2020, BrewInfo20100, BrewInfoTwo, BrewInfoEmpty, BrewInfoError}}
    \cup {[kind |-> "brew", tap |-> BrewFailed, update |-> BrewOk, info |-> BrewOk],
          [kind |-> "brew", tap |-> BrewOk, update |-> BrewFailed, info |-> BrewOk],
          [kind |-> "brew", tap |-> BrewOk, update |-> BrewOk, info |-> BrewFailed]}

DiscoveryInputs == HttpInputs \cup BrewInputs

NoCheck ==
    [op |-> "none", pc |-> "idle", defined |-> FALSE, userRequested |-> FALSE,
     threw |-> FALSE, result |-> "none", logged |-> <<>>,
     cached |-> InvalidVersion, attached |-> FALSE,
     discovered |-> InvalidVersion, entered |-> FALSE,
     error |-> NoError, ran |-> <<>>, fetched |-> <<>>, text |-> <<>>,
     flow |-> IdleFlow, ret |-> FALSE]

\* the flow record the update check runs promptToUpdateAzdata in
CheckFlow == 1

\* variant: an equal version is offered as well
EntersUpdate_NotOlder(comparison) == comparison # -1

\* newVersion.compare(currentAzdata.cachedVersion) === 1
EntersUpdate(comparison) == comparison = 1

\* variant: without a handle the context key is left as it is
ContextWithoutHandle_Kept(current) == current

\* the context key azdataFound after an update check without a handle
ContextWithoutHandle(current) == FALSE

\* checkAndUpdateAzdata up to its first await: without a handle the context
\* key is cleared and false is returned, with one the discovery is awaited
CheckAndUpdateAzdata(withHandle, userRequested) ==
    /\ check.pc \in {"idle", "done"}
    /\ \A f \in Flows : flows[f].pc = "idle"
    /\ withHandle => handle.defined
    /\ IF withHandle
       THEN /\ check' = [NoCheck EXCEPT !.op = "update",
                                        !.pc = "discovering", !.defined = TRUE,
                                        !.userRequested = userRequested,
                                        !.cached = handle.cachedVersion,
                                        !.attached = TRUE]
            /\ UNCHANGED toolFound
       ELSE /\ check' = [NoCheck EXCEPT !.op = "update", !.pc = "done",
                                        !.userRequested = userRequested]
            /\ toolFound' = ContextWithoutHandle(toolFound)
    /\ UNCHANGED <<pathExists, debug, call>>
    /\ UNCHANGED <<promptVars, installVars, handle, eval>>

\* the discovery ends with found: it rejects, or its version is compared
\* with the handle's cached version and the update prompt function is called
DiscoveryDoneWith(found) ==
    /\ check.pc = "discovering"
    /\ IF found.threw
       THEN /\ check' = [check EXCEPT !.pc = "done", !.threw = TRUE,
                                      !.error = found.err, !.ran = found.ran,
                                      !.fetched = found.fetched, !.text = found.text]
            /\ UNCHANGED promptVars
       ELSE IF EntersUpdate(Compare(found.version, check.cached))
       THEN /\ check' = [check EXCEPT !.discovered = found.version,
                                      !.pc = "prompting", !.entered = TRUE,
                                      !.ran = found.ran,
                                      !.fetched = found.fetched, !.text = found.text]
            /\ PromptCall(CheckFlow, "update", check.userRequested)
       ELSE /\ check' = [check EXCEPT !.discovered = found.version,
                                      !.pc = "done", !.ret = FALSE,
                                      !.ran = found.ran,
                                      !.fetched = found.fetched, !.text = found.text]
            /\ UNCHANGED promptVars
    /\ UNCHANGED <<facadeVars, installVars, handle, eval>>

DiscoveryDone(input) ==
    /\ input.kind = (IF platform = "darwin" THEN "brew" ELSE "http")
    /\ DiscoveryDoneWith(DiscoverLatestAvailableAzdataVersion(platform, input))

\* promptToUpdateAzdata has returned: its result is the result of the check
CheckReturn ==
    /\ check.op = "update"
    /\ check.pc = "prompting"
    /\ flows[CheckFlow].pc = "done"
    /\ check' = [check EXCEPT !.pc = "done", !.ret = flows[CheckFlow].ret,
                              !.flow = flows[CheckFlow]]
    /\ flows' = [flows EXCEPT ![CheckFlow] = IdleFlow]
    /\ UNCHANGED <<config, eulaAccepted, eulaContext>>
    /\ UNCHANGED <<facadeVars, installVars, handle, eval>>

\* checkAndInstallAzdata up to the end of its first findAzdata, which ended
\* with found: the handle is returned, or the failure is logged, the context
\* key cleared and promptToInstallAzdata called
CheckAndInstallWith(userRequested, found) ==
    /\ check.pc \in {"idle", "done"}
    /\ \A f \in Flows : flows[f].pc = "idle"
    /\ toolFound' = FoundFlag(found.threw)
    /\ handle' = AfterFind(handle, found)
    /\ IF found.threw
       THEN /\ check' = [NoCheck EXCEPT !.op = "install", !.pc = "prompting",
                                        !.userRequested = userRequested,
                                        !.logged = <<found.err>>]
            /\ PromptCall(CheckFlow, "install", userRequested)
       ELSE /\ check' = [NoCheck EXCEPT !.op = "install", !.pc = "done",
                                        !.userRequested = userRequested,
                                        !.result = "handle"]
            /\ UNCHANGED promptVars
    /\ UNCHANGED <<pathExists, debug, call>>
    /\ UNCHANGED <<installVars, eval>>

CheckAndInstallAzdata(userRequested, search, proc) ==
    CheckAndInstallWith(userRequested, FindSpecificAzdata(search, proc, platform, debug))

\* promptToInstallAzdata has returned: on true findAzdata is awaited again,
\* ending with found, and its handle or its error is the outcome; on false
\* undefined is returned
InstallPromptReturnedWith(found) ==
    /\ check.op = "install"
    /\ check.pc = "prompting"
    /\ flows[CheckFlow].pc = "done"
    /\ flows' = [flows EXCEPT ![CheckFlow] = IdleFlow]
    /\ IF ~flows[CheckFlow].ret
       THEN /\ check' = [check EXCEPT !.pc = "done", !.result = "undefined",
                                      !.flow = flows[CheckFlow]]
            /\ UNCHANGED <<toolFound, handle>>
       ELSE IF found.threw
       THEN /\ check' = [check EXCEPT !.pc = "done", !.result = "rejected",
                                      !.threw = TRUE, !.error = found.err,
                                      !.logged = Append(@, found.err),
                                      !.flow = flows[CheckFlow]]
            /\ toolFound' = FoundFlag(TRUE)
            /\ handle' = AfterFind(handle, found)
       ELSE /\ check' = [check EXCEPT !.pc = "done", !.result = "handle",
                                      !.flow = flows[CheckFlow]]
            /\ toolFound' = FoundFlag(FALSE)
            /\ handle' = AfterFind(handle, found)
    /\ UNCHANGED <<pathExists, debug, call>>
    /\ UNCHANGED <<config, eulaAccepted, eulaContext>>
    /\ UNCHANGED <<installVars, eval>>

InstallPromptReturned(search, proc) ==
    InstallPromptReturnedWith(FindSpecificAzdata(search, proc, platform, debug))

----------------------------------------------------------------------------
(* Helpers without side effects: parseVersion, SemVer.compare and the       *)
(* argument list of arc.postgres.server.edit                               *)

NoEval == [fn |-> "none", input |-> <<>>, output |-> <<>>]

\* parseVersion(raw) on the platform of the process
EvalParseVersion(raw) ==
    /\ eval' = [fn |-> "parseVersion", input |-> raw,
                output |-> ParseVersion(raw, platform)]
    /\ UNCHANGED <<facadeVars, promptVars, installVars, handle, check>>

\* the digits of a number: Number.prototype.toString()
RECURSIVE DigitsOf(_)
DigitsOf(n) ==
    IF n < 10 THEN <<DigitChars[n + 1]>>
    ELSE DigitsOf(n \div 10) \o <<DigitChars[(n % 10) + 1]>>

\* new SemVer('MAJOR.MINOR.PATCH')
VersionOfParts(major, minor, patch) ==
    SemVer(JStr(DigitsOf(major) \o <<".">> \o DigitsOf(minor) \o <<".">>
                \o DigitsOf(patch)))

\* a.compare(b)
EvalCompare(a, b) ==
    /\ eval' = [fn |-> "compare", input |-> <<a, b>>, output |-> Compare(a, b)]
    /\ UNCHANGED <<facadeVars, promptVars, installVars, handle, check>>

\* the version banners: a first line, and the lines after it, each line ended
\* by a line feed or by carriage return and line feed
FirstLines ==
    {<<"2", "0", ".", "2", ".", "0">>,
     <<" ", "2", "0", ".", "1", "0", ".", "1", " ">>,
     <<"u", "s", "a", "g", "e">>}
LineBreaks == {<<"\n">>, <<"\r", "\n">>}
LinePy == <<"P", "y", " ", "3">>
LineBuild == <<"1", ".", "0", ".", "0">>
FollowingLines(br) == {<<>>, LinePy, LinePy \o br \o LineBuild, LineBuild \o br}
Banners == {first \o br \o rest : first \in FirstLines, br \in LineBreaks,
                                   rest \in UNION {FollowingLines(b) : b \in LineBreaks}}

\* the versions MAJOR.MINOR.PATCH with parts up to MaxPart, and one part of
\* two digits
MaxPart == 2
Parts == 0..MaxPart \cup {10}
Versions == {VersionOfParts(a, b, c) : a, b, c \in Parts}

\* variant: the elements are put in front of the array
Push_Front(arr, items) == items \o arr

\* Array.prototype.push(...items)
Push(arr, items) == arr \o items

\* an optional field is <<>> when undefined and <<value>> when defined
Defined(field) == field # <<>>
Truthy(field) == field = <<TRUE>>

\* if (cond) { argsArray.push(...items); }
PushIf(arr, cond, items) == IF cond THEN Push(arr, items) ELSE arr

\* Number.prototype.toString()
NumberToString(n) == ToString(n)

\* arc.postgres.server.edit: the array handed to executeCommand
PostgresServerEdit(args) ==
    LET a0  == <<"arc", "postgres", "server", "edit", "-n", args.name>>
        a1  == PushIf(a0, Truthy(args.adminPassword), <<"--admin-password">>)
        a2  == PushIf(a1, Defined(args.coresLimit), <<"--cores-limit", args.coresLimit[1]>>)
        a3  == PushIf(a2, Defined(args.coresRequest),
                      <<"--cores-request", args.coresRequest[1]>>)
        a4  == PushIf(a3, Defined(args.engineSettings),
                      <<"--engine-settings", args.engineSettings[1]>>)
        a5  == PushIf(a4, Defined(args.extensions), <<"--extensions", args.extensions[1]>>)
        a6  == PushIf(a5, Defined(args.memoryLimit), <<"--memory-limit", args.memoryLimit[1]>>)
        a7  == PushIf(a6, Defined(args.memoryRequest),
                      <<"--memory-request", args.memoryRequest[1]>>)
        a8  == PushIf(a7, Truthy(args.noWait), <<"--no-wait">>)
        a9  == PushIf(a8, Defined(args.port), <<"--port", NumberToString(args.port[1])>>)
        a10 == PushIf(a9, Truthy(args.replaceEngineSettings), <<"--replace-engine-settings">>)
    IN  PushIf(a10, Defined(args.workers), <<"--workers", NumberToString(args.workers[1])>>)

EvalPostgresServerEdit(args) ==
    /\ eval' = [fn |-> "edit", input |-> args, output |-> PostgresServerEdit(args)]
    /\ UNCHANGED <<facadeVars, promptVars, installVars, handle, check>>

Optional(values) == {<<>>} \cup {<<v>> : v \in values}

EditInputs ==
    [name : {"s1"},
     adminPassword : Optional(BOOLEAN),
     coresLimit : Optional({"2", ""}),
     coresRequest : Optional({"1"}),
     engineSettings : Optional({"a=b"}),
     extensions : Optional({"pg"}),
     memoryLimit : Optional({"2Gi"}),
     memoryRequest : Optional({"1Gi"}),
     noWait : Optional(BOOLEAN),
     port : Optional({5432}),
     replaceEngineSettings : Optional({TRUE}),
     workers : Optional({0, 3})]

----------------------------------------------------------------------------
(* ArcControllersOptionsSource: getVariableValue, getPassword and           *)
(* getIsPassword.  A value is <<>> when undefined and <<v>> when defined;   *)
(* no name or label of the model contains a quote or a backslash.          *)

NameEndpoint == <<"e", "n", "d", "p", "o", "i", "n", "t">>
NameUsername == <<"u", "s", "e", "r", "n", "a", "m", "e">>
NamePassword == <<"p", "a", "s", "s", "w", "o", "r", "d">>
VariableNames ==
    {NameEndpoint, NameUsername, NamePassword, <<"p", "o", "r", "t">>,
     <<"P", "a", "s", "s", "w", "o", "r", "d">>, <<>>}
ControllerLabels == {<<"d", "c", "1">>, <<"d", "c", "2">>}

OptionReturns(value) == [threw |-> FALSE, error |-> "none", value |-> value]
OptionThrows(message) == [threw |-> TRUE, error |-> message, value |-> <<>>]

\* throwUnless(condition, message), and then the statements after it
ThrowUnless(condition, message, rest) ==
    IF condition THEN rest ELSE OptionThrows(message)

\* variant: the user name is taken for a secret as well
GetIsPassword_UsernameSecret(variableName) ==
    IF variableName \in {NameUsername, NamePassword} THEN OptionReturns(<<TRUE>>)
    ELSE IF variableName = NameEndpoint THEN OptionReturns(<<FALSE>>)
    ELSE OptionThrows("isPasswordFetchForUnsupportedVariable")

\* getIsPassword(variableName)
GetIsPassword(variableName) ==
    IF variableName \in {NameEndpoint, NameUsername} THEN OptionReturns(<<FALSE>>)
    ELSE IF variableName = NamePassword THEN OptionReturns(<<TRUE>>)
    ELSE OptionThrows("isPasswordFetchForUnsupportedVariable")

\* !password: undefined and the empty string
Falsy(value) == value \in {<<>>, <<"">>}

\* getPassword(controller): the stored password, or the reacquired one when
\* the stored one is falsy; arc holds what the arc API answers
GetPassword(arc) ==
    IF arc.stored.threw THEN arc.stored
    ELSE IF ~Falsy(arc.stored.value) THEN OptionReturns(arc.stored.value)
    ELSE IF arc.reacquired.threw THEN arc.reacquired
    ELSE ThrowUnless(arc.reacquired.value # <<>>, "noPasswordFound",
                     OptionReturns(arc.reacquired.value))

\* JSON.stringify([variableName, controllerLabel])
CacheKey(variableName, controllerLabel) ==
    <<"[", "\"">> \o variableName \o <<"\"", ",", "\"">> \o controllerLabel \o <<"\"", "]">>

\* retrieveVariable(key): the controller with the label is looked up among
\* the registered ones and the variable read from it
RetrieveParsed(parsed, arc) ==
    IF arc.controllers = <<>> THEN OptionThrows("TypeError")
    ELSE ThrowUnless(parsed[2].s \in arc.controllers[1], "noControllerInfoFound",
             IF parsed[1].s = NameEndpoint THEN OptionReturns(<<"url">>)
             ELSE IF parsed[1].s = NameUsername THEN OptionReturns(<<"admin">>)
             ELSE IF parsed[1].s = NamePassword THEN GetPassword(arc)
             ELSE OptionThrows("variableValueFetchForUnsupportedVariable"))

RetrieveVariable(key, arc) == RetrieveParsed(JsonParse(key).val.m, arc)

\* CacheManager.getCacheEntry(key, retrieve): the entry of the key, which is
\* retrieved and kept when the cache has none
GetCacheEntry(cache, key, retrieved) ==
    IF \E e \in cache : e.k = key
    THEN [out |-> OptionReturns((CHOOSE e \in cache : e.k = key).v), cache |-> cache]
    ELSE IF retrieved.threw THEN [out |-> retrieved, cache |-> cache]
    ELSE [out |-> retrieved, cache |-> cache \cup {[k |-> key, v |-> retrieved.value]}]

\* what the arc API answers during one call: the registered controllers,
\* the stored password and the password the user is asked for again
ArcAnswers ==
    [controllers : {<<>>, <<{<<"d", "c", "1">>}>>},
     stored : {OptionThrows("Error"), OptionReturns(<<>>), OptionReturns(<<"">>),
               OptionReturns(<<"pw">>)},
     reacquired : {OptionThrows("userCancelledError"), OptionReturns(<<>>),
                   OptionReturns(<<"pw2">>)}]

NoOptionsCall == [fn |-> "none", input |-> <<>>, output |-> OptionReturns(<<>>), cache |-> {},
                  cached |-> FALSE]

\* getVariableValue(variableName, controllerLabel) on the options source
EvalGetVariableValueWith(variableName, controllerLabel, arc, key) ==
    /\ eval' = [fn |-> "getVariableValue",
                input |-> [name |-> variableName, label |-> controllerLabel, arc |-> arc],
                output |-> GetCacheEntry(eval.cache, key, RetrieveVariable(key, arc)).out,
                cache |-> GetCacheEntry(eval.cache, key, RetrieveVariable(key, arc)).cache,
                cached |-> \E e \in eval.cache : e.k = key]
    /\ UNCHANGED <<facadeVars, promptVars, installVars, handle, check>>

EvalGetVariableValue(variableName, controllerLabel, arc) ==
    EvalGetVariableValueWith(variableName, controllerLabel, arc,
                             CacheKey(variableName, controllerLabel))

EvalGetIsPassword(variableName) ==
    /\ eval' = [eval EXCEPT !.fn = "getIsPassword", !.input = [name |-> variableName],
                            !.output = GetIsPassword(variableName), !.cached = FALSE]
    /\ UNCHANGED <<facadeVars, promptVars, installVars, handle, check>>

----------------------------------------------------------------------------
(* Specifications                                                          *)

\* a handle exists: discovery found the tool and set the context key
InitFacade ==
    /\ toolFound = TRUE
    /\ pathExists = TRUE
    /\ debug = FALSE
    /\ call = NoCall

\* no prompt function is running; the user may have set any decision key
InitPrompt ==
    /\ config \in [Keys -> DeployOptions]
    /\ eulaAccepted = FALSE
    /\ eulaContext = FALSE
    /\ flows = [f \in Flows |-> IdleFlow]

\* no install, update or update check has installer; no handle is held
InitTool ==
    /\ platform \in Platforms
    /\ installer = NoRun
    /\ issued = NoneIssued
    /\ handle = NoHandle
    /\ check = NoCheck
    /\ eval = NoEval

\* the facade and the prompt functions do not read process.platform
Init == InitFacade /\ InitPrompt /\ InitTool /\ platform = "linux"

\* the facade on its own, with the decision keys at their default
InitDefault == Init /\ config = [k \in Keys |-> "prompt"]

NextFacade ==
    \/ \E c \in CallSamples \cup PreviousCall, proc \in ProcessResults :
           ExecuteCommand(c.args, c.env, proc)
    \/ BinaryRemoved
    \/ BinaryRestored
    \/ SetDebug

SpecFacade == InitDefault /\ [][NextFacade]_vars

NextPrompt ==
    \/ \E f \in Flows, key \in Keys, userRequested \in BOOLEAN :
           NoOtherFlow(f) /\ StartPrompt(f, key, userRequested)
    \/ \E f \in Flows, answer \in {"yes", "no", "accept", "decline", "askLater",
                                   "doNotAskAgain", "undefined"} :
           Respond(f, answer)
    \/ \E f \in Flows, outcome \in ActionOutcomes : FinishAction(f, outcome)
    \/ \E f \in Flows : ReturnPrompt(f)

SpecPrompt == Init /\ [][NextPrompt]_vars

\* prompt functions called while another one awaits its message box or its
\* action: nothing in a prompt function keeps a second call from starting
NextConcurrent ==
    \/ \E f \in Flows, key \in Keys, userRequested \in BOOLEAN :
           StartPrompt(f, key, userRequested)
    \/ \E f \in Flows, answer \in {"yes", "no", "accept", "decline", "askLater",
                                   "doNotAskAgain", "undefined"} :
           Respond(f, answer)
    \/ \E f \in Flows, outcome \in ActionOutcomes : FinishAction(f, outcome)
    \/ \E f \in Flows : ReturnPrompt(f)

SpecConcurrent == InitDefault /\ [][NextConcurrent]_vars

InitInstall == InitFacade /\ InitPrompt /\ InitTool /\ config = [k \in Keys |-> "prompt"]

NextInstall ==
    \/ InstallAzdata
    \/ UpdateAzdata
    \/ \E res \in StepResults : StepDone(res)

SpecInstall == InitInstall /\ [][NextInstall]_vars

\* the core operations one kind at a time, each call as often as it is made:
\* the installer, the two checks, promptForEula and the facade
FlowsIdle == \A f \in Flows : flows[f].pc = "idle"
EulaFlow == CheckFlow + 1
EulaUntouched == config["eulaAccept"] = "prompt" /\ ~eulaContext
NoCheckYet == check.op = "none" /\ EulaUntouched /\ call.op = "none"
NoRunYet == installer.op = "none" /\ EulaUntouched /\ call.op = "none"

NextLive ==
    \/ NoCheckYet /\ FlowsIdle /\ InstallAzdata
    \/ NoCheckYet /\ FlowsIdle /\ UpdateAzdata
    \/ \E res \in StepResults : StepDone(res)
    \/ \E userRequested \in BOOLEAN, search \in SearchResults, proc \in VersionResults :
           NoRunYet /\ CheckAndInstallAzdata(userRequested, search, proc)
    \/ \E withHandle, userRequested \in BOOLEAN :
           NoRunYet /\ CheckAndUpdateAzdata(withHandle, userRequested)
    \/ \E input \in DiscoveryInputs : DiscoveryDone(input)
    \/ \E f \in Flows, answer \in {"yes", "no", "accept", "decline", "askLater",
                                   "doNotAskAgain", "undefined"} :
           Respond(f, answer)
    \/ \E outcome \in ActionOutcomes : FinishAction(CheckFlow, outcome)
    \/ CheckReturn
    \/ \E search \in SearchResults, proc \in VersionResults :
           InstallPromptReturned(search, proc)
    \/ \E userRequested \in BOOLEAN :
           /\ installer.op = "none" /\ check.op = "none" /\ call.op = "none"
           /\ FlowsIdle
           /\ StartPrompt(EulaFlow, "eulaAccept", userRequested)
    \/ ReturnPrompt(EulaFlow)
    \/ \E c \in CallSamples, proc \in ProcessResults :
           /\ installer.op = "none" /\ check.op = "none" /\ EulaUntouched
           /\ FlowsIdle
           /\ ExecuteCommand(c.args, c.env, proc)

\* the second findAzdata of checkAndInstallAzdata ends; whichever way it
\* ends the function is left, which is stated here for the search that fails
SecondFindEnds ==
    InstallPromptReturnedWith([threw |-> TRUE, err |-> DownloadError, tool |-> NoHandle])

\* what resumes an operation that awaits a process, a fetch, a message box
\* or a function it called; the operations run one at a time, so that at
\* most one of these can happen in a state
Completes ==
    \/ \E res \in StepResults : StepDone(res)
    \/ \E input \in DiscoveryInputs : DiscoveryDone(input)
    \/ \E f \in Flows, answer \in {"yes", "no", "accept", "decline", "askLater",
                                   "doNotAskAgain", "undefined"} :
           Respond(f, answer)
    \/ \E outcome \in ActionOutcomes : FinishAction(CheckFlow, outcome)
    \/ CheckReturn
    \/ SecondFindEnds

\* every awaited process, fetch and message box ends, and a function that
\* was resumed runs on to its next await
Completion == WF_vars(Completes)

SpecLive == InitInstall /\ [][NextLive]_vars /\ Completion

\* one options source object, called again and again
InitOptions ==
    /\ InitFacade /\ InitPrompt /\ config = [k \in Keys |-> "prompt"]
    /\ platform = "linux" /\ installer = NoRun /\ issued = NoneIssued
    /\ handle = NoHandle /\ check = NoCheck
    /\ eval = NoOptionsCall

NextOptions ==
    \/ \E variableName \in VariableNames, controllerLabel \in ControllerLabels,
          arc \in ArcAnswers :
           EvalGetVariableValue(variableName, controllerLabel, arc)
    \/ \E variableName \in VariableNames : EvalGetIsPassword(variableName)

SpecOptions == InitOptions /\ [][NextOptions]_vars

\* the update check with the discovery of the tool and of its latest version
NextUpdate ==
    \/ \E search \in SearchResults, proc \in VersionResults : FindAzdata(search, proc)
    \/ \E proc \in VersionResults : Version(proc)
    \/ \E withHandle, userRequested \in BOOLEAN :
           CheckAndUpdateAzdata(withHandle, userRequested)
    \/ \E input \in DiscoveryInputs : DiscoveryDone(input)
    \/ \E answer \in {"yes", "no", "doNotAskAgain", "undefined"} :
           Respond(CheckFlow, answer)
    \/ \E outcome \in ActionOutcomes : FinishAction(CheckFlow, outcome)
    \/ CheckReturn

SpecUpdate == InitInstall /\ [][NextUpdate]_vars

\* the handle among the operations that run while it is held: version(),
\* login, and one update check, install or update, at any point of which
\* the tool may be searched again or its version asked
InitHandle == InitInstall /\ platform = "darwin"

\* the calls that pass environment variables of their own
CallsWithEnv == {c \in CallSamples : c.env # <<>>}

NextHandle ==
    \/ \E proc \in VersionResults : FindAzdata([threw |-> FALSE, err |-> NoError], proc)
    \/ \E proc \in VersionResults : Version(proc)
    \/ \E c \in CallsWithEnv, proc \in {r \in RepeatResults : r.exitCode = 0} :
           handle.defined /\ ExecuteCommand(c.args, c.env, proc)
    \/ check.pc = "idle" /\ CheckAndUpdateAzdata(TRUE, FALSE)
    \/ \E input \in {i \in BrewInputs : /\ i.tap = BrewOk /\ i.update = BrewOk
                                         /\ i.info.stdout \notin {BrewInfoTwo, BrewInfoError}} :
           DiscoveryDone(input)
    \/ Respond(CheckFlow, "yes")
    \/ FinishAction(CheckFlow, NoError)
    \/ CheckReturn
    \/ installer.op = "none" /\ InstallAzdata
    \/ installer.op = "none" /\ UpdateAzdata
    \/ \E res \in {r \in StepResults : ~r.threw} : StepDone(res)

SpecHandle == InitHandle /\ [][NextHandle]_vars

\* checkAndInstallAzdata with its install prompt, under every stored decision
NextFind ==
    \/ \E userRequested \in BOOLEAN, search \in SearchResults, proc \in VersionResults :
           CheckAndInstallAzdata(userRequested, search, proc)
    \/ \E answer \in {"yes", "no", "askLater", "doNotAskAgain", "undefined"} :
           Respond(CheckFlow, answer)
    \/ \E outcome \in ActionOutcomes : FinishAction(CheckFlow, outcome)
    \/ \E search \in SearchResults, proc \in VersionResults :
           InstallPromptReturned(search, proc)

SpecFind == Init /\ [][NextFind]_vars

\* one call of a helper, on every input of the samples and on every platform
NextHelpers ==
    \/ eval.fn = "none" /\ \E raw \in Banners : EvalParseVersion(raw)
    \/ eval.fn = "none" /\ \E a, b \in Versions : EvalCompare(a, b)
    \/ eval.fn = "none" /\ \E args \in EditInputs : EvalPostgresServerEdit(args)

SpecHelpers == InitInstall /\ [][NextHelpers]_vars

----------------------------------------------------------------------------
(* Properties of the Tool Facade                                           *)

\* the last facade invocation is one whose process exited non-zero
FailedCall == call.op = "executeCommand" /\ call.proc.exitCode # 0

\* no part of text that runs from a '{' to a '}' is a JSON text
NoEmbeddedObject(text) ==
    \A i, j \in 1..Len(text) :
        (i < j /\ text[i] = "{" /\ text[j] = "}") => ~JsonParse(SubSeq(text, i, j)).ok

\* text from position i to its end is one JSON object with a 'stderr' member
\* and no nested object or array
FlatErrorObjectAt(text, i) ==
    /\ text[i] = "{"
    /\ LET parsed == JsonParse(SubSeq(text, i, Len(text)))
       IN  /\ parsed.ok
           /\ parsed.val.t = "object"
           /\ \A n \in 1..Len(parsed.val.m) : parsed.val.m[n].v.t \notin {"object", "array"}
           /\ \E n \in 1..Len(parsed.val.m) : parsed.val.m[n].k = NameStderr

\* the 0-based index of the last c in s, or -1
RECURSIVE LastIndexFrom(_, _, _)
LastIndexFrom(s, c, i) ==
    IF i < 1 THEN -1
    ELSE IF s[i] = c THEN i - 1
    ELSE LastIndexFrom(s, c, i - 1)

LastIndexOf(s, c) == LastIndexFrom(s, c, Len(s))

\* the part of text from its first '{' to its last '}'
FirstToLastBrace(text) == Substring(text, IndexOf(text, "{"), LastIndexOf(text, "}") + 1)

\* C1: a failed invocation whose stderr holds no parseable embedded JSON
\* object, with the binary still at the handle's path, fails with the
\* original ExitError (same exit code, same stderr) and leaves the toolFound
\* flag unchanged.
C1_OriginalErrorResurfaced ==
    (FailedCall /\ NoEmbeddedObject(call.proc.stderr) /\ call.existed)
        => /\ call.status = "threw"
           /\ call.thrown = ExitCodeError(call.proc.exitCode, JStr(call.proc.stderr))
           /\ call.foundAfter = call.foundBefore

\* C2: a failed invocation whose stderr holds no parseable embedded JSON
\* object, with the binary no longer at the handle's path, fails with
\* ToolNotFoundError and the toolFound flag is false afterwards.
C2_ToolNotFoundReported ==
    (FailedCall /\ NoEmbeddedObject(call.proc.stderr) /\ ~call.existed)
        => /\ call.status = "threw"
           /\ call.thrown = NoAzdata
           /\ call.foundAfter = FALSE
           /\ toolFound = FALSE

\* C3: a failed invocation whose stderr is any prefix followed by one flat
\* JSON object with a 'stderr' field fails with an ExitError of the same exit
\* code whose stderr is that field's value; the binary's existence is not
\* checked and the toolFound flag is unchanged.
C3_FlatObjectRefined ==
    \A i \in 1..Len(call.proc.stderr) :
        (FailedCall /\ FlatErrorObjectAt(call.proc.stderr, i))
            => /\ call.status = "threw"
               /\ call.thrown =
                    ExitCodeError(call.proc.exitCode,
                        GetProp(JsonParse(SubSeq(call.proc.stderr, i,
                                                 Len(call.proc.stderr))).val, NameStderr))
               /\ ~call.accessChecked
               /\ call.foundAfter = call.foundBefore

\* C4: the embedded error object is the part of stderr from its first '{' to
\* its last '}': whenever that part is a JSON object, the failed invocation is
\* refined to the value of the object's top-level 'stderr' field, nested
\* objects and earlier '}' included.
C4_FirstToLastBraceRefined ==
    LET parsed == JsonParse(FirstToLastBrace(call.proc.stderr))
    IN  (FailedCall /\ parsed.ok /\ parsed.val.t = "object")
            => /\ call.status = "threw"
               /\ call.thrown = ExitCodeError(call.proc.exitCode,
                                              GetProp(parsed.val, NameStderr))

----------------------------------------------------------------------------
(* Properties of the prompt flows                                          *)

Started(f) == flows[f].pc # "idle"
Done(f)    == flows[f].pc = "done"

\* the flow has started the action of its key: installAzdata or updateAzdata
\* was called, or the EULA acceptance was recorded
ActionStarted(f) == flows[f].acted \/ flows[f].recorded

\* the user picked yes / accept in the message box of the flow
UserAccepted(f) ==
    flows[f].presented /\ flows[f].answered = AcceptResponse(flows[f].key)

\* a user-initiated install or update check with DontPrompt stored
DirectRun(f) ==
    /\ flows[f].key \in {"install", "update"}
    /\ flows[f].userRequested
    /\ flows[f].cfg = "dontPrompt"

\* nothing persisted was changed since the flow began
StoreUntouched(f) ==
    /\ flows[f].wrote = {}
    /\ config = flows[f].before.config
    /\ eulaAccepted = flows[f].before.eulaAccepted

\* C5 as stated: for every key a user-initiated check presents a choice
\* whatever is stored, and a stored Prompt presents a choice whoever
\* initiated the check.
C5_ChoiceAlwaysPresented ==
    \A f \in Flows :
        (Started(f) /\ (flows[f].userRequested \/ flows[f].cfg = "prompt"))
            => flows[f].presented

\* C5 (amended): promptForEula presents a choice whenever the check is
\* user-initiated or Prompt is stored; the install and update prompts present
\* a choice exactly when Prompt is stored, whoever initiated the check, and a
\* user-initiated check with DontPrompt stored presents none.
C5_ChoicePresentedPerKey ==
    \A f \in Flows :
        Started(f) =>
            IF flows[f].key = "eulaAccept"
            THEN flows[f].presented <=> (flows[f].userRequested \/ flows[f].cfg = "prompt")
            ELSE flows[f].presented <=> (flows[f].cfg = "prompt")

C5_Witness ==
    \E f \in Flows :
        /\ flows[f].pc = "acting" /\ flows[f].key = "update"
        /\ DirectRun(f) /\ ~flows[f].presented

\* C6 as stated: the install or update action is started, or the EULA
\* acceptance recorded, only after a choice was presented in the same flow and
\* the user selected yes / accept.
C6_ActionOnlyAfterYes ==
    \A f \in Flows : ActionStarted(f) => UserAccepted(f)

\* C6 (amended): the action is started only after the user selected yes /
\* accept in a choice presented by the same flow, or, for install and update,
\* by a user-initiated check while DontPrompt is stored, which presents no
\* choice and proceeds as if yes had been selected; a system-initiated flow
\* never starts the action without that selection, and the EULA acceptance
\* is never recorded without it.
C6_ActionAfterYesOrDirectRun ==
    \A f \in Flows :
        ActionStarted(f) =>
            \/ UserAccepted(f)
            \/ (DirectRun(f) /\ ~flows[f].presented /\ flows[f].acted)

C6_Witness ==
    \E f \in Flows :
        /\ Done(f) /\ flows[f].acted /\ flows[f].outcome = NoError
        /\ DirectRun(f) /\ ~flows[f].presented

\* C7: with DontPrompt stored and a check that is not user-initiated, the
\* prompt operation of every key presents no choice, starts no action,
\* writes nothing to the decision store and returns false.
C7_DontPromptSkipsSilently ==
    \A f \in Flows :
        (Started(f) /\ flows[f].cfg = "dontPrompt" /\ ~flows[f].userRequested)
            => /\ Done(f)
               /\ ~flows[f].presented
               /\ ~ActionStarted(f)
               /\ StoreUntouched(f)
               /\ flows[f].ret = FALSE

C7_Witness ==
    \E f \in Flows :
        /\ Done(f) /\ flows[f].key = "install"
        /\ flows[f].cfg = "dontPrompt" /\ ~flows[f].userRequested
        /\ flows[f].ret = FALSE

\* C8: when a presented prompt is answered with "don't ask again", the
\* stored value of that key becomes DontPrompt, the action of the key is not
\* performed and the operation returns false.
C8_DontAskAgainPersists ==
    \A f \in Flows :
        (flows[f].presented /\ flows[f].answered = "doNotAskAgain")
            => /\ Done(f)
               /\ config[flows[f].key] = "dontPrompt"
               /\ flows[f].wrote = {<<flows[f].key, "dontPrompt">>}
               /\ \A k \in Keys \ {flows[f].key} : config[k] = flows[f].before.config[k]
               /\ ~ActionStarted(f)
               /\ flows[f].ret = FALSE

C8_Witness ==
    \E f \in Flows :
        /\ Done(f) /\ flows[f].answered = "doNotAskAgain"
        /\ flows[f].before.config[flows[f].key] = "prompt"
        /\ config[flows[f].key] = "dontPrompt"

\* C9: when a presented prompt is answered with ask-later or no / decline, or
\* is dismissed, the operation returns false, starts no action and leaves the
\* three decision values and the eulaAccepted memento unchanged.
C9_DeclineLeavesStateUnchanged ==
    \A f \in Flows :
        (flows[f].presented
            /\ flows[f].answered \in {"askLater", "no", "decline", "undefined"})
            => /\ Done(f)
               /\ flows[f].ret = FALSE
               /\ ~ActionStarted(f)
               /\ StoreUntouched(f)

C9_Witness ==
    \E f \in Flows :
        /\ Done(f) /\ flows[f].presented /\ flows[f].answered = "undefined"
        /\ flows[f].key = "eulaAccept" /\ flows[f].ret = FALSE

\* C10 as stated: a prompt operation returns true if and only if the user's
\* yes / accept led to the action of the key and that action succeeded.
C10_TrueIffUserYesSucceeded ==
    \A f \in Flows :
        Done(f) =>
            (flows[f].ret = TRUE
                <=> (UserAccepted(f) /\ ActionStarted(f) /\ flows[f].outcome = NoError))

\* C10 (amended): a prompt operation returns true if and only if the action
\* of the key was started, by the user's yes / accept or by a user-initiated
\* install or update check with DontPrompt stored (which presents no choice),
\* and that action succeeded; in every other outcome, a failed install or
\* update included, it returns false.
C10_TrueIffActionSucceeded ==
    \A f \in Flows :
        Done(f) =>
            (flows[f].ret = TRUE
                <=> /\ ActionStarted(f)
                    /\ flows[f].outcome = NoError
                    /\ (UserAccepted(f) \/ (DirectRun(f) /\ ~flows[f].presented)))

C10_Witness ==
    \E f \in Flows :
        /\ Done(f) /\ UserAccepted(f) /\ flows[f].acted
        /\ flows[f].outcome.kind = "ExitCodeError" /\ flows[f].ret = FALSE

\* C11: the three decision keys are independent: a prompt operation for one
\* key reads only the stored value of that key and writes no other key, for
\* every stored state, initiator and response.
C11_KeysIndependent ==
    \A f \in Flows :
        Started(f) =>
            /\ flows[f].reads = {flows[f].key}
            /\ flows[f].cfg = flows[f].before.config[flows[f].key]
            /\ \A w \in flows[f].wrote : w[1] = flows[f].key
            /\ \A k \in Keys \ {flows[f].key} : config[k] = flows[f].before.config[k]

C11_Witness ==
    \E f \in Flows :
        /\ Done(f) /\ flows[f].key = "update" /\ flows[f].answered = "doNotAskAgain"
        /\ config["update"] = "dontPrompt"
        /\ flows[f].before.config = [k \in Keys |-> "prompt"]
        /\ config["install"] = "prompt" /\ config["eulaAccept"] = "prompt"

\* C12: DontPrompt is permanent: a decision key that holds DontPrompt keeps
\* it in every step of the core, and whenever the core changes a decision key
\* the value it writes is DontPrompt.
C12_DontPromptPermanent ==
    [][\A k \in Keys :
          /\ config[k] = "dontPrompt" => config'[k] = "dontPrompt"
          /\ config'[k] # config[k] => config'[k] = "dontPrompt"]_vars

C12_Witness ==
    \E f \in Flows, k \in Keys :
        /\ Done(f) /\ flows[f].key # k /\ flows[f].answered = "doNotAskAgain"
        /\ flows[f].before.config[k] = "dontPrompt"
        /\ config[k] = "dontPrompt" /\ config[flows[f].key] = "dontPrompt"

\* C20: when the install or update action fails inside a prompt flow, the
\* flow ends normally and returns false; a warning is shown for every such
\* failure except an ExitError carrying the user-cancellation code 1602.
C20_FailureWarnsUnlessCancelled ==
    \A f \in Flows :
        (flows[f].acted /\ Done(f) /\ flows[f].outcome # NoError)
            => /\ flows[f].ret = FALSE
               /\ flows[f].warned
                    <=> ~(flows[f].outcome.kind = "ExitCodeError"
                            /\ flows[f].outcome.code = 1602)

C20_Witness ==
    \E f \in Flows :
        /\ Done(f) /\ flows[f].acted /\ flows[f].presented
        /\ flows[f].outcome = ExitCodeError(1602, JStr(<<>>))
        /\ ~flows[f].warned /\ flows[f].ret = FALSE

\* the number of elements of the sequence q that equal x
RECURSIVE CountIn(_, _)
CountIn(q, x) ==
    IF q = <<>> THEN 0
    ELSE (IF Head(q) = x THEN 1 ELSE 0) + CountIn(Tail(q), x)

\* C14: the argument list handed to the external process is the caller's
\* args in their order followed by exactly one '--output' 'json' pair, and by
\* '--debug' when the debug option is set; this holds when the same args
\* array is passed again, and the caller's array is never changed.
C14_OneOutputJsonPair ==
    call.op = "executeCommand" =>
        /\ call.argv = call.args \o <<"--output", "json">>
                         \o (IF call.debug THEN <<"--debug">> ELSE <<>>)
        /\ CountIn(call.argv, "--output") = 1
        /\ CountIn(call.argv, "json") = 1
        /\ call.argsAfter = call.args
        /\ call.args \in {c.args : c \in CallSamples}

C14_Witness ==
    /\ call.op = "executeCommand"
    /\ call.reused
    /\ call.debug
    /\ call.argv = <<"arc", "sql", "mi", "show", "-n", "s1", "--output", "json", "--debug">>

\* the JSON value is an object with the four members of the output contract
HasOutputMembers(val) ==
    /\ val.t = "object"
    /\ \A name \in {NameLog, NameStdout, NameStderr, NameResult} :
           \E n \in 1..Len(val.m) : val.m[n].k = name

\* C15: when the process exits with zero and its stdout is the JSON object
\* {log, stdout, stderr, result}, the facade returns a result whose logs,
\* stdout, stderr and result are the object's log, stdout, stderr and result
\* members, the result as it was parsed; for the stdout
\* {"log":[],"stdout":[],"stderr":[],"result":{"x":1}} the result is {x: 1}.
C15_OutputFieldsPassedThrough ==
    LET parsed == JsonParse(call.proc.stdout)
    IN  /\ (call.op = "executeCommand" /\ call.proc.exitCode = 0
              /\ parsed.ok /\ HasOutputMembers(parsed.val))
            => /\ call.status = "returned"
               /\ call.output.logs = GetProp(parsed.val, NameLog)
               /\ call.output.stdout = GetProp(parsed.val, NameStdout)
               /\ call.output.stderr = GetProp(parsed.val, NameStderr)
               /\ call.output.result = GetProp(parsed.val, NameResult)
        /\ (call.op = "executeCommand" /\ call.proc.exitCode = 0
              /\ call.proc.stdout = StdoutResult)
            => /\ call.status = "returned"
               /\ call.output.logs = JArr(<<>>)
               /\ call.output.stdout = JArr(<<>>)
               /\ call.output.stderr = JArr(<<>>)
               /\ call.output.result = JObj(<<[k |-> <<"x">>, v |-> JNum(<<"1">>)]>>)

C15_Witness ==
    /\ call.op = "executeCommand"
    /\ call.proc.exitCode = 0
    /\ call.proc.stdout = StdoutResult
    /\ call.status = "returned"
    /\ GetProp(call.output.result, <<"x">>) = JNum(<<"1">>)

----------------------------------------------------------------------------
(* Properties of installAzdata / updateAzdata                              *)

\* the steps of installer.started were issued in the platform's order
IssuedInOrder ==
    LET steps == StepsOf(installer.op, platform, installer.value)
    IN  /\ Len(installer.started) <= Len(steps)
        /\ \A i \in 1..Len(installer.started) :
               /\ installer.started[i].cmd = steps[i].cmd
               /\ installer.started[i].args = steps[i].args

\* C17: in every platform's install / update sequence, when step k fails no
\* step after k is started, no other (rollback) step is issued, and the
\* operation fails with exactly the error of step k; the operation succeeds
\* only when every step of the sequence succeeded.
C17_FirstFailureAborts ==
    (installer.op # "none" /\ Supported(platform)) =>
        LET n == Len(installer.results)
        IN  /\ IssuedInOrder
            /\ \A i \in 1..n :
                   installer.results[i].threw =>
                       /\ i = n
                       /\ Len(installer.started) = i
                       /\ installer.pc = "done"
                       /\ installer.status = "failed"
                       /\ installer.error = installer.results[i].err
            /\ installer.status = "failed" => (n >= 1 /\ installer.results[n].threw)
            /\ installer.status = "ok" =>
                   /\ n = Len(StepsOf(installer.op, platform, installer.value))
                   /\ Len(installer.started) = n
                   /\ \A i \in 1..n : ~installer.results[i].threw

C17_Witness ==
    /\ platform = "linux"
    /\ installer.op = "install"
    /\ installer.pc = "done"
    /\ installer.status = "failed"
    /\ Len(installer.started) = 5
    /\ installer.started[5].param = <<"2", "0", ".", "0", "4">>
    /\ installer.error = ExitCodeError(1, JStr(StderrPlain))
    /\ \A i \in 1..4 : ~installer.results[i].threw

\* the commands of the privileged steps of a sequence, in their order
PrivilegedCommands(steps) ==
    LET sudo == SelectSeq(steps, LAMBDA st : st.sudo)
    IN  [i \in 1..Len(sudo) |-> sudo[i].cmd]

\* position of the first step of the sequence that runs cmd, or 0
FirstIssue(steps, cmd) ==
    IF \E i \in 1..Len(steps) : steps[i].cmd = cmd
    THEN CHOOSE i \in 1..Len(steps) :
             /\ steps[i].cmd = cmd
             /\ \A j \in 1..(i - 1) : steps[j].cmd # cmd
    ELSE 0

\* C18: on the apt-like platform a successful install issues its privileged
\* steps in the order update index, install prerequisites, add signing key,
\* add repository, update index again, install target package; a step is
\* started only after all earlier ones completed successfully, and the
\* target package install is never started before the repository was added
\* and the index was updated a second time.
C18_AptStepOrder ==
    (platform = "linux" /\ installer.op = "install") =>
        LET st == installer.started
            n  == Len(st)
            target == FirstIssue(st, AptInstallAzdata.cmd)
        IN  /\ installer.status = "ok" =>
                PrivilegedCommands(st) =
                    <<"apt-get update", AptPrerequisites.cmd, AddSigningKey.cmd,
                      AddRepository(<<>>).cmd, "apt-get update",
                      "apt-get install -y azdata-cli">>
            /\ Len(installer.results) >= n - 1
            /\ \A i \in 1..(n - 1) : ~installer.results[i].threw
            /\ target # 0 =>
                   \E repo \in 1..(target - 1) :
                       /\ st[repo].cmd = AddRepository(<<>>).cmd
                       /\ \E upd \in (repo + 1)..(target - 1) :
                              st[upd].cmd = "apt-get update"
                       /\ \E upd \in 1..(repo - 1) : st[upd].cmd = "apt-get update"

C18_Witness ==
    /\ platform = "linux"
    /\ installer.op = "install"
    /\ installer.status = "ok"
    /\ Len(installer.started) = 7
    /\ installer.started[5].param = <<"1", "8", ".", "0", "4">>
    /\ installer.started[7].cmd = "apt-get install -y azdata-cli"

\* a successful install and a successful update have both run, with the
\* same values embedded in their command lines
BothIssued ==
    /\ issued["install"] # <<>>
    /\ issued["update"] # <<>>
    /\ Len(issued["install"]) = Len(issued["update"])
    /\ \A i \in 1..Len(issued["install"]) :
           issued["install"][i].param = issued["update"][i].param

\* the sequence is: download the installer, then install it silently
DownloadThenSilentInstall(steps) ==
    /\ Len(steps) = 2
    /\ steps[1].cmd = "HttpClient.downloadFile"
    /\ steps[2].cmd = "msiexec"
    /\ steps[2].args = <<"/qn", "/i", "downloadedFile">>
    /\ steps[2].param = DownloadedFile

\* C19 as stated: updateAzdata issues the same ordered sequence of external
\* steps as installAzdata on the brew-like and on the apt-like platform, and
\* on platform A it runs the full installer sequence again.
C19_UpdateSameAsInstall ==
    BothIssued =>
        /\ platform \in {"darwin", "linux"} => issued["update"] = issued["install"]
        /\ platform = "win32" => DownloadThenSilentInstall(issued["update"])

\* C19 amended: updateAzdata issues the same ordered sequence of external
\* steps as installAzdata on the apt-like platform; on the brew-like platform
\* the sequences agree up to the last step, which is 'brew upgrade
\* azdata-cli' in the update and 'brew install azdata-cli' in the install;
\* on platform A the update runs the full installer sequence again.
C19_UpdateSameUpToUpgrade ==
    BothIssued =>
        LET ins == issued["install"]
            upd == issued["update"]
            n   == Len(ins)
        IN  /\ platform = "linux" => upd = ins
            /\ platform = "darwin" =>
                   /\ SubSeq(upd, 1, n - 1) = SubSeq(ins, 1, n - 1)
                   /\ ins[n].cmd = "brew" /\ ins[n].args = <<"install", "azdata-cli">>
                   /\ upd[n].cmd = "brew" /\ upd[n].args = <<"upgrade", "azdata-cli">>
            /\ platform = "win32" =>
                   /\ upd = ins
                   /\ DownloadThenSilentInstall(upd)

C19_Witness ==
    /\ platform = "darwin"
    /\ BothIssued
    /\ installer.op = "update"
    /\ installer.status = "ok"
    /\ installer.started[3].args = <<"upgrade", "azdata-cli">>

----------------------------------------------------------------------------
(* Properties of the update check and of the tool handle                   *)

\* version a is strictly greater than version b
NewerThan(a, b) ==
    \/ a.major > b.major
    \/ a.major = b.major /\ a.minor > b.minor
    \/ a.major = b.major /\ a.minor = b.minor /\ a.patch > b.patch

\* the update check was called with a handle and its discovery has ended
\* with a version
Compared ==
    /\ check.defined
    /\ check.pc \in {"prompting", "done"}
    /\ ~check.threw

\* C13: checkAndUpdateAzdata with a defined handle enters the update prompt
\* flow if and only if the discovered latest version is strictly greater than
\* the handle's cachedVersion; when the versions are equal or the discovered
\* one is older, no prompt flow is entered, no update runs, and it returns
\* false.
C13_UpdateOfferedIffNewer ==
    Compared =>
        /\ check.entered <=> NewerThan(check.discovered, check.cached)
        /\ check.entered =>
               (IF check.pc = "prompting" THEN flows[CheckFlow].key
                                          ELSE check.flow.key) = "update"
        /\ ~check.entered =>
               /\ check.pc = "done"
               /\ check.ret = FALSE
               /\ check.flow = IdleFlow
               /\ \A f \in Flows : flows[f].pc = "idle"
               /\ installer = NoRun

C13_Witness ==
    /\ Compared
    /\ check.pc = "done"
    /\ ~check.entered
    /\ check.ret = FALSE
    /\ check.cached.valid
    /\ check.discovered = check.cached
    /\ check.cached.minor = 2

\* C16: a tool handle's cachedVersion is the version parsed from the output
\* of the most recent successful '--version' invocation for it (the one of
\* its discovery, or of a later version() call that returned); it is never a
\* default value, and no other operation (command invocation, login, update
\* check, install, update) assigns it.
C16_CachedVersionFromLastVersionOutput ==
    handle.defined =>
        LET line == ParseVersion(handle.lastGood, platform)
        IN  /\ handle.cachedVersion.valid
            /\ handle.cachedVersion = SemVer(JStr(line))
            /\ handle.cachedVersion.raw = line
            /\ (platform = "darwin" /\ handle.lastGood = Banner20101) =>
                   /\ handle.cachedVersion.major = 20
                   /\ handle.cachedVersion.minor = 10
                   /\ handle.cachedVersion.patch = 1

C16_Witness ==
    /\ handle.defined
    /\ platform = "darwin"
    /\ handle.lastOp = "version"
    /\ handle.lastStatus = "ok"
    /\ handle.lastGood = Banner20101
    /\ handle.cachedVersion.minor = 10
    /\ call.op = "executeCommand"
    /\ installer.status = "ok"
    /\ check.pc = "done"

\* C30: on a platform other than the three supported ones installAzdata and
\* updateAzdata fail with the platform-unsupported error without starting a
\* download or an external command; the status bar message they set is
\* disposed on this and on every other outcome, and shown while they run.
C30_UnsupportedFailsAndMessageDisposed ==
    /\ (installer.op # "none" /\ platform \notin {"win32", "darwin", "linux"}) =>
           /\ installer.pc = "done"
           /\ installer.status = "failed"
           /\ installer.error = PlatformUnsupported
           /\ installer.started = <<>>
           /\ installer.results = <<>>
    /\ installer.pc = "done" => installer.statusBar = "disposed"
    /\ installer.pc = "running" => installer.statusBar = "shown"

C30_Witness ==
    /\ platform = "freebsd"
    /\ installer.op = "update"
    /\ installer.status = "failed"
    /\ installer.error = PlatformUnsupported
    /\ installer.statusBar = "disposed"

----------------------------------------------------------------------------
(* Properties of the helpers                                                *)

\* the characters of a text before its first line feed
UpToLineFeed(text) ==
    LET i == IndexOf(text, "\n") IN IF i = -1 THEN text ELSE Substring(text, 0, i)

\* C23: for every multi-line version banner parseVersion returns exactly the
\* first line with leading and trailing whitespace removed, whatever the
\* lines after it are and however many.
C23_FirstLineTrimmed ==
    eval.fn = "parseVersion" => eval.output = Trim(UpToLineFeed(eval.input))

\* C24: compare is a total order on (major, minor, patch): for all versions
\* a and b, compare(a, b) = -compare(b, a), compare(a, a) = 0, the result is
\* one of -1, 0, 1, and it is 0 only for equal triples.
C24_CompareAntisymmetric ==
    eval.fn = "compare" =>
        LET a == eval.input[1]
            b == eval.input[2]
        IN  /\ eval.output \in {-1, 0, 1}
            /\ eval.output = -Compare(b, a)
            /\ Compare(a, a) = 0
            /\ Compare(b, b) = 0
            /\ eval.output = 0 <=>
                   <<a.major, a.minor, a.patch>> = <<b.major, b.minor, b.patch>>

C24_Witness ==
    /\ eval.fn = "compare"
    /\ eval.input[1].valid /\ eval.input[2].valid
    /\ eval.input[1].major = eval.input[2].major
    /\ eval.input[1].minor = 10 /\ eval.input[2].minor = 2
    /\ eval.output = 1

\* the optional fields of arc.postgres.server.edit in the order of their
\* flags, and whether the flag stands alone (boolean field) or has a value
EditFlags ==
    <<[field |-> "adminPassword", flag |-> "--admin-password", alone |-> TRUE],
      [field |-> "coresLimit", flag |-> "--cores-limit", alone |-> FALSE],
      [field |-> "coresRequest", flag |-> "--cores-request", alone |-> FALSE],
      [field |-> "engineSettings", flag |-> "--engine-settings", alone |-> FALSE],
      [field |-> "extensions", flag |-> "--extensions", alone |-> FALSE],
      [field |-> "memoryLimit", flag |-> "--memory-limit", alone |-> FALSE],
      [field |-> "memoryRequest", flag |-> "--memory-request", alone |-> FALSE],
      [field |-> "noWait", flag |-> "--no-wait", alone |-> TRUE],
      [field |-> "port", flag |-> "--port", alone |-> FALSE],
      [field |-> "replaceEngineSettings", flag |-> "--replace-engine-settings",
       alone |-> TRUE],
      [field |-> "workers", flag |-> "--workers", alone |-> FALSE]>>

\* the flag of entry e is due for the input: its field is true (boolean
\* field) or defined (field with a value)
FlagDue(input, e) ==
    IF e.alone THEN input[e.field] = <<TRUE>> ELSE input[e.field] # <<>>

\* the text of the value of entry e: a number in decimal digits
ValueText(input, e) ==
    IF e.field \in {"port", "workers"} THEN ToString(input[e.field][1])
    ELSE input[e.field][1]

PositionsOf(seq, x) == {i \in 1..Len(seq) : seq[i] = x}

\* C22: for every input the argument list of the postgres server edit
\* command starts with arc postgres server edit -n <name>, holds the flag
\* (followed by its value) of exactly the optional fields that are defined
\* (boolean fields: true), holds no flag of another field, and lists the
\* flags in one fixed order.
C22_EditFlagsForDefinedFieldsInOrder ==
    eval.fn = "edit" =>
        LET out == eval.output
            due == {k \in 1..Len(EditFlags) : FlagDue(eval.input, EditFlags[k])}
        IN  /\ Len(out) >= 6
            /\ SubSeq(out, 1, 6) = <<"arc", "postgres", "server", "edit", "-n",
                                     eval.input.name>>
            /\ \A k \in 1..Len(EditFlags) :
                   Cardinality(PositionsOf(out, EditFlags[k].flag))
                       = IF k \in due THEN 1 ELSE 0
            /\ \A k \in due :
                   \A i \in PositionsOf(out, EditFlags[k].flag) :
                       /\ i > 6
                       /\ ~EditFlags[k].alone =>
                              /\ i < Len(out)
                              /\ out[i + 1] = ValueText(eval.input, EditFlags[k])
            /\ \A k, l \in due :
                   k < l => \A i \in PositionsOf(out, EditFlags[k].flag),
                               j \in PositionsOf(out, EditFlags[l].flag) : i < j
            /\ Len(out) = 6 + Cardinality(due)
                            + Cardinality({k \in due : ~EditFlags[k].alone})

\* the input of the example: name s1, coresLimit 2, workers undefined
C22_Witness ==
    /\ eval.fn = "edit"
    /\ eval.input.name = "s1"
    /\ eval.input.coresLimit = <<"2">>
    /\ eval.input.workers = <<>>
    /\ \A f \in DOMAIN eval.input \ {"name", "coresLimit"} : eval.input[f] = <<>>
    /\ eval.output = <<"arc", "postgres", "server", "edit", "-n", "s1", "--cores-limit", "2">>

----------------------------------------------------------------------------
(* Properties of the invocations of the tool                                *)

\* the process exited with code zero and its stdout is a JSON text
ExitedZeroWithJson(proc) == proc.exitCode = 0 /\ JsonParse(proc.stdout).ok

\* C27: one call of the facade starts the tool exactly once; a failed call is
\* not repeated and its failure is not swallowed: the call returns a result
\* only when that one process exited with code zero and its stdout parsed
\* as JSON, and fails with an error in every other case.
C27_OneSpawnFailurePropagates ==
    call.op = "executeCommand" =>
        /\ Len(call.spawned) = 1
        /\ call.spawned[1].args = call.argv
        /\ call.status \in {"returned", "threw"}
        /\ call.status = "returned" => ExitedZeroWithJson(call.proc)
        /\ call.status = "threw" => call.thrown # NoError /\ call.output = NoOutput

C27_Witness ==
    /\ call.op = "executeCommand"
    /\ call.proc.exitCode = 1
    /\ Len(call.spawned) = 1
    /\ call.status = "threw"
    /\ call.thrown.kind = "ExitCodeError"

HasAcceptEula(env) == "ACCEPT_EULA" \in DOMAIN env /\ env["ACCEPT_EULA"] = "yes"

\* the handle ran the tool with --version: when it was found or by version()
RanVersion == handle.lastOp \in {"find", "version"}

\* C25: every run of the tool (a facade command, login, version(), the
\* --version of the search for the tool) has ACCEPT_EULA=yes among its
\* environment overrides, whatever the caller passed.
C25_AcceptEulaInEveryInvocation ==
    /\ call.op = "executeCommand" =>
           /\ HasAcceptEula(call.spawnEnv)
           /\ \A i \in 1..Len(call.spawned) : HasAcceptEula(call.spawned[i].env)
           /\ \A k \in DOMAIN call.env \ {"ACCEPT_EULA"} :
                  k \in DOMAIN call.spawnEnv /\ call.spawnEnv[k] = call.env[k]
    /\ RanVersion => HasAcceptEula(handle.spawnEnv)

C25_Witness ==
    /\ call.op = "executeCommand"
    /\ "ACCEPT_EULA" \in DOMAIN call.env
    /\ call.env["ACCEPT_EULA"] = "no"
    /\ call.spawnEnv["ACCEPT_EULA"] = "yes"
    /\ handle.lastOp = "version"
    /\ HasAcceptEula(handle.spawnEnv)

\* the password of the login of the samples
Password == "secret"

Holds(env, text) == \E k \in DOMAIN env : env[k] = text
IsLogin(args) == args # <<>> /\ args[1] = "login"

----------------------------------------------------------------------------
(* Properties of the discovery of the latest version                        *)

\* the update check has got the result of its discovery
DiscoveryEnded == check.defined /\ check.pc \in {"prompting", "done"}

\* the text of the string value v as a version, as new SemVer(v) reads it
TextOf(v) == IF v.t = "string" THEN v.s ELSE <<>>

\* C28: the discovery dispatches on the platform: the brew platform takes
\* versions.stable of the first element of the JSON array that brew info
\* prints; every other platform, the apt one and unknown ones included,
\* takes the version field of the entry of the hosted descriptor that is
\* keyed by the platform's name, and runs no package manager command.
C28_DiscoveryDispatchesOnPlatform ==
    DiscoveryEnded =>
        IF platform = "darwin"
        THEN /\ check.fetched = <<>>
             /\ check.ran # <<>>
             /\ \A i \in 1..Len(check.ran) : check.ran[i] = <<BrewTap, BrewUpdate, BrewInfoJson>>[i]
             /\ ~check.threw =>
                    /\ check.ran = <<BrewTap, BrewUpdate, BrewInfoJson>>
                    /\ check.text # <<>>
                    /\ check.discovered.raw =
                           TextOf(GetProp(GetProp(JsonParse(check.text[1]).val.m[1],
                                                  NameVersions), NameStable))
        ELSE /\ check.ran = <<>>
             /\ check.fetched = <<ReleaseUrl>>
             /\ ~check.threw =>
                    /\ check.text # <<>>
                    /\ check.discovered.raw =
                           TextOf(GetProp(GetProp(JsonParse(check.text[1]).val,
                                                  PlatformName(platform)), NameVersion))

\* on an unknown platform the entry of that platform's name is read
C28_Witness ==
    /\ DiscoveryEnded
    /\ platform = "freebsd"
    /\ check.text = <<ReleaseJsonPerPlatform>>
    /\ check.discovered.raw = <<"2", "0", ".", "2", ".", "3">>
    /\ check.ran = <<>>

\* C29: on every platform a fetched text that is not valid JSON makes the
\* discovery fail with an error that embeds the raw text and its source (the
\* address or the command); no version is returned, and checkAndUpdateAzdata
\* fails without entering the update prompt flow.
C29_InvalidJsonFailsWithTextAndSource ==
    (DiscoveryEnded /\ check.text # <<>> /\ ~JsonParse(check.text[1]).ok) =>
        /\ check.threw
        /\ check.pc = "done"
        /\ check.error.kind = "Error"
        /\ check.error.text = check.text[1]
        /\ check.error.source = IF platform = "darwin" THEN BrewInfoJson ELSE ReleaseUrl
        /\ check.discovered = InvalidVersion
        /\ ~check.entered
        /\ ~check.ret
        /\ flows[CheckFlow] = IdleFlow

C29_Witness ==
    /\ DiscoveryEnded
    /\ platform = "darwin"
    /\ check.text = <<BrewInfoError>>
    /\ check.threw
    /\ check.error = ParseFailure(BrewInfoJson, BrewInfoError)
    /\ ~check.entered

----------------------------------------------------------------------------
(* Properties of checkAndInstallAzdata                                      *)

\* C21: checkAndInstallAzdata never fails with the error of a search for the
\* tool: every failed search is logged and followed by the decision of the
\* install prompt, and the call ends with a handle or with undefined.
C21_CheckAndInstallNeverFails ==
    (check.op = "install" /\ check.pc = "done") =>
        /\ check.result \in {"handle", "undefined"}
        /\ ~check.threw
        /\ check.logged # <<>> =>
               /\ Len(check.logged) = 1
               /\ check.flow.key = "install"
               /\ check.flow.pc = "done"

----------------------------------------------------------------------------
(* Further properties of the prompt flows                                   *)

\* the item that refuses: no, or decline for the EULA
DeclineResponse(key) == IF key = "eulaAccept" THEN "decline" ELSE "no"

\* C31: the items offered depend on the initiator only: a user-initiated
\* prompt offers exactly yes / accept and no / decline, a system-initiated
\* one exactly yes / accept, ask later and don't ask again; so a
\* user-initiated prompt flow never changes a persisted decision value.
C31_OfferedByInitiatorOnly ==
    \A f \in Flows :
        /\ flows[f].presented =>
               flows[f].offered =
                   IF flows[f].userRequested
                   THEN {AcceptResponse(flows[f].key), DeclineResponse(flows[f].key)}
                   ELSE {AcceptResponse(flows[f].key), "askLater", "doNotAskAgain"}
        /\ (Started(f) /\ flows[f].userRequested) =>
               /\ flows[f].wrote = {}
               /\ flows[f].answered # "doNotAskAgain"
               /\ NoOtherFlow(f) => config = flows[f].before.config

C31_Witness ==
    \E f \in Flows :
        /\ Done(f) /\ flows[f].userRequested /\ flows[f].presented
        /\ flows[f].key = "install"
        /\ flows[f].offered = {"yes", "no"}
        /\ flows[f].answered = "no"
        /\ config = flows[f].before.config

\* the EULA flow f has ended
EulaDone(f) == Done(f) /\ flows[f].key = "eulaAccept"

\* C36: EULA acceptance is monotone: promptForEula sets the eulaAccepted
\* memento and the context flag to true exactly when the user selects accept,
\* and then returns true; no step ever sets either of them back to false.
C36_EulaAcceptanceMonotone ==
    /\ [](\A f \in Flows :
              EulaDone(f) =>
                  /\ flows[f].recorded <=> UserAccepted(f)
                  /\ flows[f].ret <=> UserAccepted(f)
                  /\ flows[f].recorded => eulaAccepted /\ eulaContext)
    /\ [][/\ eulaAccepted => eulaAccepted'
          /\ eulaContext => eulaContext'
          /\ (eulaAccepted' # eulaAccepted \/ eulaContext' # eulaContext) =>
                 \E f \in Flows :
                     /\ flows'[f].key = "eulaAccept"
                     /\ flows[f].pc = "prompting"
                     /\ flows'[f].pc = "done"
                     /\ flows'[f].answered = "accept"
                     /\ flows'[f].ret]_vars

\* the EULA was accepted in one flow and declined in a later one
C36_Witness ==
    /\ eulaAccepted /\ eulaContext
    /\ \E f \in Flows :
           /\ EulaDone(f) /\ flows[f].before.eulaAccepted
           /\ flows[f].answered = "decline" /\ ~flows[f].ret

----------------------------------------------------------------------------
(* Further properties of the search for the tool and of the update check    *)

\* the errors a search for the tool can end with on this platform
SearchErrors ==
    {FindSpecificAzdata(search, proc, platform, debug).err :
         search \in SearchResults, proc \in VersionResults} \ {NoError}

\* C32: after every findAzdata that has ended the toolFound flag is the
\* outcome of that search: true when it returned a handle, false when it
\* failed, and then the error of the search is what the caller gets.
C32_FoundFlagIsFindOutcome ==
    /\ [](/\ handle.find.status = "found" =>
                 /\ handle.find.flag
                 /\ handle.defined
                 /\ handle.find.thrown = NoError
          /\ handle.find.status = "threw" =>
                 /\ ~handle.find.flag
                 /\ handle.find.thrown \in SearchErrors
                 /\ handle.find.thrown # NoAzdata)
    /\ [][handle'.find # handle.find =>
              /\ handle'.find.status \in {"found", "threw"}
              /\ toolFound' = (handle'.find.status = "found")]_vars

\* a failed search after a successful one: the flag is false, the handle kept
C32_Witness ==
    /\ handle.defined
    /\ handle.find.status = "threw"
    /\ handle.find.thrown.kind = "ExitCodeError"
    /\ ~toolFound

\* an update check that was called without a handle
SkippedUpdateCheck(c) == c.op = "update" /\ ~c.defined

\* C33: checkAndUpdateAzdata without a handle discovers no latest version
\* (no fetch, no package-manager command), shows no prompt, runs no update,
\* sets the toolFound flag to false and returns false.
C33_NoHandleNoUpdateCheck ==
    /\ [](SkippedUpdateCheck(check) =>
              /\ check.pc = "done"
              /\ check.ran = <<>>
              /\ check.fetched = NoCheck.fetched
              /\ check.text = NoCheck.text
              /\ check.discovered = NoCheck.discovered
              /\ ~check.entered
              /\ ~check.threw
              /\ check.ret = FALSE)
    /\ [][SkippedUpdateCheck(check') /\ check' # check =>
              /\ toolFound' = FALSE
              /\ flows' = flows
              /\ config' = config
              /\ installer' = installer
              /\ issued' = issued
              /\ handle' = handle]_vars

\* the check was skipped while a found tool was held by the extension
C33_Witness ==
    /\ SkippedUpdateCheck(check)
    /\ check.pc = "done"
    /\ handle.find.status = "found"
    /\ ~toolFound

----------------------------------------------------------------------------
(* Further properties of the facade and of the handle                       *)

\* the last call's process exited with zero and wrote no valid JSON
ExitedZeroNotJson ==
    /\ call.op = "executeCommand"
    /\ call.proc.exitCode = 0
    /\ ~JsonParse(call.proc.stdout).ok

\* C34: when the process exits with zero and its stdout is not valid JSON
\* the facade fails with the parse error itself: the stderr is not refined,
\* the existence of the binary is not checked, the tool is not reported as
\* not found and the toolFound flag is left as it was.
C34_InvalidStdoutFailsWithParseError ==
    ExitedZeroNotJson =>
        /\ call.status = "threw"
        /\ call.thrown = SyntaxError
        /\ call.caught = SyntaxError
        /\ call.thrown # NoAzdata
        /\ ~call.accessChecked
        /\ call.foundAfter = call.foundBefore
        /\ toolFound = call.foundBefore

\* the parse error of a call made while the binary is missing and the flag set
C34_Witness ==
    /\ ExitedZeroNotJson
    /\ ~call.existed
    /\ call.foundBefore
    /\ call.status = "threw"

\* the step is a version() call on the held handle that ended with status
VersionEnded(status) ==
    /\ handle.defined
    /\ handle' # handle
    /\ handle'.find = handle.find
    /\ handle'.lastOp = "version"
    /\ handle'.lastStatus = status

\* C35: a version() call that fails, because the '--version' process exits
\* non-zero or because its first output line is no semantic version, leaves
\* the handle's cachedVersion and path as they were and fails towards its
\* caller; a call that returns had an output whose first line is a version.
C35_FailedVersionKeepsHandle ==
    /\ [][VersionEnded("threw") =>
              /\ handle'.cachedVersion = handle.cachedVersion
              /\ handle'.path = handle.path
              /\ handle'.lastGood = handle.lastGood
              /\ handle'.defined
              /\ check' = check]_vars
    /\ [][VersionEnded("ok") =>
              /\ VersionOf([exitCode |-> 0, stdout |-> handle'.lastGood,
                            stderr |-> <<>>], platform).valid
              /\ handle'.path = handle.path]_vars
    /\ [](handle.defined => handle.path = ToolPath(platform))

\* a version() that failed on a handle whose last good output was another one
C35_Witness ==
    /\ handle.defined
    /\ handle.lastOp = "version"
    /\ handle.lastStatus = "threw"
    /\ handle.cachedVersion.valid
    /\ handle.path = "azdata.cmd"
    /\ handle.lastGood = Banner20101

----------------------------------------------------------------------------
(* Prompt functions that run at the same time                               *)

\* flow f starts its install or update in this step
StartsAction(f) == flows[f].pc # "acting" /\ flows'[f].pc = "acting"

\* C37: however system-initiated prompt flows for one decision key are
\* interleaved, once dontPrompt is stored for the key no system-initiated
\* flow starts the install or update of that key.
C37_NoActionAfterDontPrompt ==
    [][\A f \in Flows :
           (StartsAction(f) /\ ~flows'[f].userRequested) =>
               config[flows'[f].key] # "dontPrompt"]_vars

----------------------------------------------------------------------------
(* Termination of the core operations                                       *)

\* how far a prompt function and a check are from their return
FlowRank(pc) ==
    CASE pc = "prompting" -> 3 [] pc = "acting" -> 2 [] pc = "done" -> 1 [] OTHER -> 0
CheckRank(pc) ==
    CASE pc = "discovering" -> 2 [] pc = "prompting" -> 1 [] OTHER -> 0

\* what a running operation awaits: at most one thing at a time
InFlight ==
    /\ installer.pc = "running" => Len(installer.started) = Len(installer.results) + 1
    /\ installer.pc = "done" => Len(installer.started) = Len(installer.results)
    /\ check.pc = "discovering" => flows[CheckFlow].pc = "idle"
    /\ check.pc = "prompting" => flows[CheckFlow].pc # "idle"
    /\ call.op = "executeCommand" => Len(call.spawned) = 1

\* an operation has been called and has not ended
Busy ==
    \/ installer.pc = "running"
    \/ check.pc \in {"discovering", "prompting"}
    \/ \E f \in Flows : flows[f].pc \in {"prompting", "acting"}

\* the installer has started the commands of its platform's sequence, each
\* at its place and none again
StepsBounded ==
    installer.pc = "running" =>
        LET steps == StepsOf(installer.op, platform, installer.value)
        IN  /\ Len(installer.started) <= Len(steps)
            /\ \A i \in 1..Len(installer.started) :
                   installer.started[i].cmd = steps[i].cmd

\* C38: when every spawned process, fetch and message box ends, every core
\* operation ends after a bounded number of external steps, awaiting at most
\* one of them at a time: no step is tried again and no prompt shown again.
C38_OperationsTerminate ==
    /\ []<>(~Busy)
    /\ [][/\ InFlight'
          /\ StepsBounded'
          /\ \A f \in Flows :
                flows[f].pc # "idle" => FlowRank(flows'[f].pc) <= FlowRank(flows[f].pc)
          /\ check.pc \in {"discovering", "prompting"} =>
                CheckRank(check'.pc) <= CheckRank(check.pc)
          /\ installer.pc = "running" =>
                \/ installer'.pc = "done"
                \/ Len(installer'.results) = Len(installer.results) + 1]_vars

\* an update check that went through discovery, prompt and update and ended
C38_Witness ==
    /\ check.op = "update"
    /\ check.pc = "done"
    /\ check.entered
    /\ check.flow.acted
    /\ ~Busy

----------------------------------------------------------------------------
(* The Arc controllers options source                                       *)

SupportedNames == {NameEndpoint, NameUsername, NamePassword}

\* the call read the variable from the arc API and nothing there failed
Retrievable ==
    /\ ~eval.cached
    /\ eval.input.arc.controllers # <<>>
    /\ eval.input.label \in eval.input.arc.controllers[1]

====
